---- MODULE Spec2Model ----
(***************************************************************************)
(* EveryPaste: clipboard history store (storage/database.rs), clipboard    *)
(* monitor (clipboard/monitor.rs) and capture callback (lib.rs).           *)
(*                                                                         *)
(* Values.  Byte payloads (texts, pixel buffers) are the naturals          *)
(* 1..MaxContent; 0 stands for None / NULL / the empty string.  A          *)
(* timestamp is the number of clock readings taken so far: to_rfc3339      *)
(* prints UTC timestamps so that the TEXT order SQLite uses equals the     *)
(* time order.                                                             *)
(***************************************************************************)
EXTENDS Integers, FiniteSets, Sequences, TLC

\* ------------------------------------------------------------------ bounds
\* distinct clipboard payloads of the session
MaxContent == 3
\* items built in one session (caps the readings of the clock)
MaxInserts == 2
\* worker threads that can exist at once (caps thread::spawn)
MaxWorkers == 2
\* distinct texts that reach the clipboard while the monitor is observed
MaxClip == 2
\* rows the data file of the application holds at start-up, and how far below
\* the configured limit the file of a full history may be
MaxPersisted == 1
\* how many characters beyond the preview length a text may have
MaxOver == 4
\* threads that call the storage functions at the same time
MaxThreads == 2

\* ------------------------------------------------------- program constants
\* StorageLimit::as_i32
Limit100 == 100
Limit200 == 200
Limit500 == 500
Unlimited == -1
\* the max_len new_text and new_rich_text pass to generate_preview
PreviewLength == 100

VARIABLES
    \* storage/database.rs
    db_conn,            \* DB holds Some(conn)
    clipboard_history,  \* rows of table clipboard_history
    sqlite_sequence,    \* AUTOINCREMENT counter of the table (largest id ever used)
    \* chrono
    now,                \* next reading of Utc::now(), 1 at start-up
    \* config/settings.rs
    storage_limit,      \* SETTINGS.storage_limit, as_i32
    theme,              \* SETTINGS.theme
    \* table settings of data.db
    settings_table,     \* the values under the keys theme and storage_limit
    \* the mutex DB of storage/database.rs
    db_lock,            \* thread that holds DB (0: free)
    calls,              \* the storage function each calling thread is in
    \* <data dir>/images
    images,             \* asset files written by the capture callback
    \* clipboard/monitor.rs
    clipboard,          \* the OS clipboard
    running,            \* ClipboardMonitor.running
    paused,             \* ClipboardMonitor.paused
    last_hash,          \* ClipboardMonitor.last_hash
    last_hash_lock,     \* holder of the last_hash mutex, 0 when free
    starting,           \* start() calls past the running check, before the store
    pc,                 \* position of each worker thread
    snapshot,           \* each worker's local `snapshot`
    \* observation
    last_probe,         \* hash the latest tick of the monitor probed (0: nothing)
    repeat,             \* the worker's probe gave the hash of the tick before it
    emitted,            \* "clipboard-updated" events emitted
    last                \* last completed operation and its return value

store_vars == <<db_conn, clipboard_history, sqlite_sequence, now, storage_limit,
                theme, settings_table, images, db_lock, calls>>
monitor_vars == <<clipboard, running, paused, last_hash, last_hash_lock, starting,
                  pc, snapshot, last_probe, repeat>>
vars == <<db_conn, clipboard_history, sqlite_sequence, now, storage_limit, theme,
          settings_table, images, db_lock, calls,
          clipboard, running, paused, last_hash, last_hash_lock, starting,
          pc, snapshot, last_probe, repeat, emitted, last>>

\* threads that call the storage functions: the capture worker in its callback
\* and the threads that run the frontend's commands
Threads == 1..MaxThreads
\* a thread that is in no storage function
NoCall == [op |-> "none", arg |-> 0, at |-> "idle"]

\* ------------------------------------------------------------------ helpers
Max(S) == IF S = {} THEN 0 ELSE CHOOSE x \in S : \A y \in S : y <= x

Ok(v) == [ok |-> TRUE, val |-> v, err |-> "none"]
Err(e) == [ok |-> FALSE, val |-> 0, err |-> e]

\* the record of an operation: name, argument, rows it removed, return value
Done(op, arg, n, ret) == [op |-> op, arg |-> arg, n |-> n, ret |-> ret]

\* Hasher::update + finalize: equal payloads give equal digests and distinct
\* payloads distinct ones (blake3, collisions excluded); "" is no digest
compute_hash(data) == data

\* ------------------------------------------------------------ models.rs
\* ClipboardItem::new_text(0, text, hash); created_at = Utc::now()
new_text(text, hash, at) ==
    [hash |-> hash, content_type |-> "text", plain_text |-> text,
     image_path |-> 0, created_at |-> at, is_pinned |-> FALSE]

\* ClipboardItem::new_image(0, "images/<uuid>.png", thumbnail, hash)
new_image(image_path, hash, at) ==
    [hash |-> hash, content_type |-> "image", plain_text |-> 0,
     image_path |-> image_path, created_at |-> at, is_pinned |-> FALSE]


\* a text is a sequence of characters; " " stands for the white space
RECURSIVE TrimStart(_)
TrimStart(s) == IF s # <<>> /\ Head(s) = " " THEN TrimStart(Tail(s)) ELSE s
RECURSIVE TrimEnd(_)
TrimEnd(s) ==
    IF s # <<>> /\ s[Len(s)] = " " THEN TrimEnd(SubSeq(s, 1, Len(s) - 1)) ELSE s
\* str::trim
trim(s) == TrimEnd(TrimStart(s))

\* ClipboardItem::generate_preview: the trimmed text when it has at most
\* max_len characters, else its first max_len characters and "..."
generate_preview(text, max_len) ==
    LET t == trim(text)
    IN IF Len(t) <= max_len THEN t
       ELSE SubSeq(t, 1, max_len) \o <<".", ".", ".">>

\* ----------------------------------------------------------- database.rs
Pinned(rows) == {r \in rows : r.is_pinned}
Unpinned(rows) == {r \in rows : ~r.is_pinned}
Ids(rows) == {r.id : r \in rows}
Hashes(rows) == {r.hash : r \in rows}

\* insert_clipboard_item with a plain INSERT and no UNIQUE constraint on hash
insert_without_unique(conn, rows, seq, item) ==
    IF ~conn THEN [n |-> 0, ret |-> Err("NotInitialized"), rows |-> rows, seq |-> seq]
    ELSE LET id == Max(Ids(rows) \cup {seq}) + 1
             row == [hash |-> item.hash, content_type |-> item.content_type,
                     plain_text |-> item.plain_text, image_path |-> item.image_path,
                     created_at |-> item.created_at, is_pinned |-> item.is_pinned,
                     id |-> id]
         IN [n |-> Cardinality({r \in rows : r.hash = item.hash}), ret |-> Ok(id),
             rows |-> rows \cup {row}, seq |-> id]


\* insert_clipboard_item on a table whose id is INTEGER PRIMARY KEY without
\* AUTOINCREMENT: the new row takes the largest id in the table plus one
insert_without_autoincrement(conn, rows, seq, item) ==
    IF ~conn THEN [n |-> 0, ret |-> Err("NotInitialized"), rows |-> rows, seq |-> seq]
    ELSE LET conflict == {r \in rows : r.hash = item.hash}
             id == Max(Ids(rows \ conflict)) + 1
             row == [hash |-> item.hash, content_type |-> item.content_type,
                     plain_text |-> item.plain_text, image_path |-> item.image_path,
                     created_at |-> item.created_at, is_pinned |-> item.is_pinned,
                     id |-> id]
         IN [n |-> Cardinality(conflict), ret |-> Ok(id),
             rows |-> (rows \ conflict) \cup {row}, seq |-> Max({seq, id})]

\* INSERT OR REPLACE INTO clipboard_history: the UNIQUE(hash) conflict is
\* resolved by deleting the conflicting row; the new row takes the next
\* AUTOINCREMENT id; returns last_insert_rowid()
insert_clipboard_item(conn, rows, seq, item) ==
    IF ~conn THEN [n |-> 0, ret |-> Err("NotInitialized"), rows |-> rows, seq |-> seq]
    ELSE LET conflict == {r \in rows : r.hash = item.hash}
             id == Max(Ids(rows) \cup {seq}) + 1
             row == [hash |-> item.hash, content_type |-> item.content_type,
                     plain_text |-> item.plain_text, image_path |-> item.image_path,
                     created_at |-> item.created_at, is_pinned |-> item.is_pinned,
                     id |-> id]
         IN [n |-> Cardinality(conflict), ret |-> Ok(id),
             rows |-> (rows \ conflict) \cup {row}, seq |-> id]

\* hash_exists that answers "not stored" when there is no connection
hash_exists_without_connection(conn, rows, hash) ==
    Ok(IF conn /\ hash \in Hashes(rows) THEN 1 ELSE 0)

\* SELECT 1 FROM clipboard_history WHERE hash = ?1 LIMIT 1
hash_exists(conn, rows, hash) ==
    IF ~conn THEN Err("NotInitialized")
    ELSE Ok(IF hash \in Hashes(rows) THEN 1 ELSE 0)


\* delete_item that answers Ok(true) whatever the statement affected
delete_item_reports_success(conn, rows, id) ==
    IF ~conn THEN [n |-> 0, ret |-> Err("NotInitialized"), rows |-> rows]
    ELSE LET gone == {r \in rows : r.id = id}
         IN [n |-> Cardinality(gone), ret |-> Ok(1), rows |-> rows \ gone]

\* DELETE FROM clipboard_history WHERE id = ?1; Ok(affected > 0)
delete_item(conn, rows, id) ==
    IF ~conn THEN [n |-> 0, ret |-> Err("NotInitialized"), rows |-> rows]
    ELSE LET gone == {r \in rows : r.id = id}
         IN [n |-> Cardinality(gone), ret |-> Ok(IF gone # {} THEN 1 ELSE 0),
             rows |-> rows \ gone]


\* clear_all_items with `WHERE is_pinned = 0`
clear_all_items_keeps_pinned(conn, rows) ==
    IF ~conn THEN [n |-> 0, ret |-> Err("NotInitialized"), rows |-> rows]
    ELSE [n |-> Cardinality(Unpinned(rows)), ret |-> Ok(0), rows |-> Pinned(rows)]

\* DELETE FROM clipboard_history
clear_all_items(conn, rows) ==
    IF ~conn THEN [n |-> 0, ret |-> Err("NotInitialized"), rows |-> rows]
    ELSE [n |-> Cardinality(rows), ret |-> Ok(0), rows |-> {}]

\* Option<i32>: None is {}, Some(n) is {n}
None == {}
Some(n) == {n}

\* ORDER BY is_pinned DESC, created_at DESC: r is not placed after q (rows of
\* one table never have equal created_at here, every row reading the clock
\* anew; the id settles a tie)
Before(r, q) ==
    \/ r.is_pinned /\ ~q.is_pinned
    \/ /\ r.is_pinned = q.is_pinned
       /\ \/ r.created_at > q.created_at
          \/ r.created_at = q.created_at /\ r.id >= q.id

\* ORDER BY created_at DESC alone
BeforeByTime(r, q) ==
    \/ r.created_at > q.created_at
    \/ r.created_at = q.created_at /\ r.id >= q.id

RECURSIVE ListOrder(_)
ListOrder(rows) ==
    IF rows = {} THEN <<>>
    ELSE LET top == CHOOSE r \in rows : \A q \in rows : Before(r, q)
         IN <<top>> \o ListOrder(rows \ {top})

RECURSIVE TimeOrder(_)
TimeOrder(rows) ==
    IF rows = {} THEN <<>>
    ELSE LET top == CHOOSE r \in rows : \A q \in rows : BeforeByTime(r, q)
         IN <<top>> \o TimeOrder(rows \ {top})

\* LIMIT n of a result
Take(s, n) == SubSeq(s, 1, IF n < Len(s) THEN n ELSE Len(s))

\* `match limit { Some(n) if n > 0 => ... LIMIT n, _ => no LIMIT }`
Limited(s, limit) ==
    IF \E n \in limit : n > 0 THEN Take(s, CHOOSE n \in limit : TRUE) ELSE s

\* get_all_items without is_pinned in its ORDER BY
get_all_items_by_time(conn, rows, limit) ==
    IF ~conn THEN Err("NotInitialized")
    ELSE Ok(Limited(TimeOrder(rows), limit))

\* get_all_items(limit): every row decodes, so filter_map drops none
get_all_items(conn, rows, limit) ==
    IF ~conn THEN Err("NotInitialized")
    ELSE Ok(Limited(ListOrder(rows), limit))

\* get_item_by_id(id): Ok(Some(item)) or Ok(None)
get_item_by_id(conn, rows, id) ==
    IF ~conn THEN Err("NotInitialized")
    ELSE Ok({r \in rows : r.id = id})

\* SELECT COUNT(*) FROM clipboard_history
get_item_count(conn, rows) ==
    IF ~conn THEN Err("NotInitialized")
    ELSE Ok(Cardinality(rows))

\* `plain_text LIKE '%query%' OR preview LIKE '%query%'`.  Payload n is read
\* as the text of n letters "a", so that `q` occurs in `t` iff q <= t; the
\* preview of such a text is the text, the preview of an image row is
\* "[Image]" (plain_text NULL), in which "" and "a" occur.
Like(r, query) ==
    \/ r.plain_text # 0 /\ query <= r.plain_text
    \/ r.content_type = "image" /\ query <= 1

\* search_items(query, limit)
search_items(conn, rows, query, limit) ==
    IF ~conn THEN Err("NotInitialized")
    ELSE Ok(Limited(ListOrder({r \in rows : Like(r, query)}), limit))

\* the first n rows of `rows` in descending created_at order
RECURSIVE MostRecent(_, _)
MostRecent(rows, n) ==
    IF n <= 0 \/ rows = {} THEN {}
    ELSE LET top == CHOOSE r \in rows : \A q \in rows :
                        \/ q.created_at < r.created_at
                        \/ q.created_at = r.created_at /\ q.id <= r.id
         IN {top} \cup MostRecent(rows \ {top}, n - 1)

\* The subquery of cleanup_old_items is one compound SELECT,
\*     SELECT id ... WHERE is_pinned = 1
\*     UNION ALL
\*     SELECT id ... WHERE is_pinned = 0 ORDER BY created_at DESC LIMIT ?1
\* whose ORDER BY and LIMIT close the whole compound.  SQLite resolves an
\* ORDER BY term of a compound SELECT against its result columns only, so
\* preparing the statement fails ("1st ORDER BY term does not match any column
\* in the result set") and conn.execute returns the error.
CleanupResultColumns == {"id"}
CleanupOrderBy == "created_at"
CleanupPrepares == CleanupOrderBy \in CleanupResultColumns

\* cleanup_old_items whose subquery orders the compound by a result column:
\* the LIMIT then cuts the pinned ids together with the unpinned ones
cleanup_limit_over_compound(conn, rows, max_count) ==
    IF max_count <= 0 THEN [n |-> 0, ret |-> Ok(0), rows |-> rows]
    ELSE IF ~conn THEN [n |-> 0, ret |-> Err("NotInitialized"), rows |-> rows]
    ELSE LET keep == MostRecent(rows, max_count)
         IN [n |-> Cardinality(rows \ keep), ret |-> Ok(Cardinality(rows \ keep)),
             rows |-> keep]

\* cleanup_old_items without the early return of the unlimited mode
cleanup_without_early_return(conn, rows, max_count) ==
    IF ~conn THEN [n |-> 0, ret |-> Err("NotInitialized"), rows |-> rows]
    ELSE IF ~CleanupPrepares THEN [n |-> 0, ret |-> Err("Sqlite"), rows |-> rows]
    ELSE LET keep == MostRecent(rows, max_count)
         IN [n |-> Cardinality(rows \ keep), ret |-> Ok(Cardinality(rows \ keep)),
             rows |-> keep]

\* an eviction that is computed one row at a time: while the table holds more
\* than max_count rows, a call deletes the oldest unpinned row
cleanup_one_row_per_call(conn, rows, max_count) ==
    IF max_count <= 0 THEN [n |-> 0, ret |-> Ok(0), rows |-> rows]
    ELSE IF ~conn THEN [n |-> 0, ret |-> Err("NotInitialized"), rows |-> rows]
    ELSE IF Cardinality(rows) <= max_count \/ Unpinned(rows) = {}
    THEN [n |-> 0, ret |-> Ok(0), rows |-> rows]
    ELSE LET u == Unpinned(rows)
             keep == MostRecent(u, Cardinality(u) - 1)
         IN [n |-> 1, ret |-> Ok(1), rows |-> Pinned(rows) \cup keep]

\* cleanup_old_items(max_count)
cleanup_old_items(conn, rows, max_count) ==
    IF max_count <= 0 THEN [n |-> 0, ret |-> Ok(0), rows |-> rows]
    ELSE IF ~conn THEN [n |-> 0, ret |-> Err("NotInitialized"), rows |-> rows]
    ELSE IF ~CleanupPrepares THEN [n |-> 0, ret |-> Err("Sqlite"), rows |-> rows]
    ELSE LET keep == MostRecent(rows, max_count)
         IN [n |-> Cardinality(rows \ keep), ret |-> Ok(Cardinality(rows \ keep)),
             rows |-> keep]


\* INSERT OR REPLACE INTO settings (key, value) VALUES (?1, ?2)
save_setting(conn, table, key, value) ==
    IF ~conn THEN [ret |-> Err("NotInitialized"), table |-> table]
    ELSE [ret |-> Ok(0), table |-> [table EXCEPT ![key] = value]]

\* SELECT value FROM settings WHERE key = ?1
get_setting(conn, table, key) ==
    IF ~conn THEN Err("NotInitialized") ELSE Ok(Some(table[key]))

\* ------------------------------------------------ states of the data file
\* data.db outlives the process (CREATE TABLE IF NOT EXISTS): at start-up the
\* table holds the rows earlier sessions left.  Row i of a file was the i-th
\* insert, made before this session's clock started; `hs` gives its content
\* and `ps` its is_pinned column.
FileRows(hs, ps) ==
    {[hash |-> compute_hash(hs[i]), content_type |-> "text", plain_text |-> hs[i], image_path |-> 0,
      created_at |-> i - Len(hs), is_pinned |-> ps[i], id |-> i]
        : i \in DOMAIN hs}

Injective(f) == \A i, j \in DOMAIN f : f[i] = f[j] => i = j

\* files of at most k rows over the payloads of S
Files(S, k) ==
    UNION {{FileRows(hs, ps) : hs \in {f \in [1..n -> S] : Injective(f)},
                               ps \in [1..n -> BOOLEAN]} : n \in 0..k}

Workers == 1..MaxWorkers
Contents == 1..MaxContent
StorageLimits == {Limit100, Limit200, Limit500, Unlimited}

\* ------------------------------------------------------------- monitor.rs
\* What the OS clipboard answers: image = raw pixels of get_image (0: Err),
\* png = rgba_to_png gives bytes, bitmap = bytes of the CF_BITMAP format that
\* decode (0: none), files = PNG bytes of the first image file of the file
\* list (0: none), text = get_text (-1: Err, 0: Ok(""), n: Ok of n letters).
Clip(image, png, bitmap, files, text) ==
    [text |-> text, image |-> image, png |-> png, bitmap |-> bitmap, files |-> files]
EmptyClipboard == Clip(0, FALSE, 0, 0, -1)
\* what the clipboard holds while the monitor is observed: nothing, one of
\* the texts, or a bitmap (its pixels a payload that is none of the texts)
ClipboardStates ==
    {EmptyClipboard} \cup {Clip(0, FALSE, 0, 0, t) : t \in 1..MaxClip}
                     \cup {Clip(MaxClip + 1, TRUE, 0, 0, -1)}

\* every answer of the clipboard's formats to one probe
ProbeInputs ==
    {Clip(i, p, b, f, t) : i \in 0..MaxClip, p \in BOOLEAN, b \in 0..MaxClip,
                           f \in 0..MaxClip, t \in -1..MaxClip}

NoSnapshot ==
    [hash |-> 0, content_type |-> "none", plain_text |-> 0,
     rich_text |-> 0, image_data |-> 0]
ImageSnapshot(data, hash) ==
    [hash |-> hash, content_type |-> "image", plain_text |-> 0,
     rich_text |-> 0, image_data |-> data]
TextSnapshot(text, hash) ==
    [hash |-> hash, content_type |-> "text", plain_text |-> text,
     rich_text |-> 0, image_data |-> 0]

\* rgba_to_png: the PNG bytes of the pixels, empty (0) when encoding fails
rgba_to_png(cb) == IF cb.png THEN cb.image ELSE 0

\* read_clipboard that tries the DIB format whenever the direct image gave no
\* snapshot, also after a failed PNG encoding
read_clipboard_dib_after_encode_failure(cb) ==
    LET rest == IF cb.files # 0
                THEN ImageSnapshot(cb.files, compute_hash(cb.files))
                ELSE IF cb.text >= 0 /\ cb.text # 0
                THEN TextSnapshot(cb.text, compute_hash(cb.text))
                ELSE NoSnapshot
    IN IF cb.image # 0 /\ rgba_to_png(cb) # 0
       THEN ImageSnapshot(rgba_to_png(cb), compute_hash(cb.image))
       ELSE IF cb.bitmap # 0
            THEN ImageSnapshot(cb.bitmap, compute_hash(cb.bitmap))
            ELSE rest

\* read_clipboard without the `!text.is_empty()` test
read_clipboard_keeps_empty_text(cb) ==
    LET rest == IF cb.files # 0
                THEN ImageSnapshot(cb.files, compute_hash(cb.files))
                ELSE IF cb.text >= 0
                THEN TextSnapshot(cb.text, compute_hash(cb.text))
                ELSE NoSnapshot
    IN IF cb.image # 0
       THEN IF rgba_to_png(cb) # 0
            THEN ImageSnapshot(rgba_to_png(cb), compute_hash(cb.image))
            ELSE rest
       ELSE IF cb.bitmap # 0
            THEN ImageSnapshot(cb.bitmap, compute_hash(cb.bitmap))
            ELSE rest


\* read_clipboard whose text snapshot carries the pixels of a direct image
\* that could not be encoded
read_clipboard_keeps_unencoded_image(cb) ==
    LET rest == IF cb.files # 0
                THEN ImageSnapshot(cb.files, compute_hash(cb.files))
                ELSE IF cb.text >= 0 /\ cb.text # 0
                THEN [TextSnapshot(cb.text, compute_hash(cb.text))
                        EXCEPT !.image_data = cb.image]
                ELSE NoSnapshot
    IN IF cb.image # 0
       THEN IF rgba_to_png(cb) # 0
            THEN ImageSnapshot(rgba_to_png(cb), compute_hash(cb.image))
            ELSE rest
       ELSE IF cb.bitmap # 0
            THEN ImageSnapshot(cb.bitmap, compute_hash(cb.bitmap))
            ELSE rest

\* read_clipboard: direct image, else DIB when get_image failed, else image
\* files, else `if let Ok(text) = get_text() { if !text.is_empty() ..`, else
\* None
read_clipboard(cb) ==
    LET rest == IF cb.files # 0
                THEN ImageSnapshot(cb.files, compute_hash(cb.files))
                ELSE IF cb.text >= 0 /\ cb.text # 0
                THEN TextSnapshot(cb.text, compute_hash(cb.text))
                ELSE NoSnapshot
    IN IF cb.image # 0
       THEN IF rgba_to_png(cb) # 0
            THEN ImageSnapshot(rgba_to_png(cb), compute_hash(cb.image))
            ELSE rest
       ELSE IF cb.bitmap # 0
            THEN ImageSnapshot(cb.bitmap, compute_hash(cb.bitmap))
            ELSE rest

\* ClipboardMonitor::new, nothing on the clipboard, no thread
InitMonitor ==
    /\ clipboard = EmptyClipboard
    /\ running = FALSE
    /\ paused = FALSE
    /\ last_hash = 0
    /\ last_hash_lock = 0
    /\ starting = 0
    /\ pc = [w \in Workers |-> "none"]
    /\ snapshot = [w \in Workers |-> NoSnapshot]
    /\ last_probe = 0
    /\ repeat = [w \in Workers |-> FALSE]

\* ----------------------------------------------------- the store by itself
InitStore ==
    /\ db_conn = FALSE
    /\ clipboard_history \in Files(Contents, MaxContent)
    /\ sqlite_sequence = Cardinality(clipboard_history)
    /\ now = 1
    /\ storage_limit = Limit100
    /\ theme = "light"
    /\ settings_table = [storage_limit |-> storage_limit, theme |-> theme]
    /\ db_lock = 0
    /\ calls = [t \in Threads |-> NoCall]
    /\ images = {}
    /\ InitMonitor
    /\ emitted = 0
    /\ last = Done("none", 0, 0, Ok(0))

\* init_database: opens data.db and stores the connection
InitDatabase ==
    /\ ~db_conn
    /\ db_conn' = TRUE
    /\ last' = Done("init_database", 0, 0, Ok(0))
    /\ UNCHANGED <<clipboard_history, sqlite_sequence, now, storage_limit, theme, settings_table, db_lock, calls, images,
                   monitor_vars, emitted>>

\* a caller builds an item (Utc::now()) and calls insert_clipboard_item
StoreInsert(text, pin) ==
    /\ now <= MaxInserts
    /\ LET item == [new_text(text, compute_hash(text), now) EXCEPT !.is_pinned = pin]
           r == insert_clipboard_item(db_conn, clipboard_history, sqlite_sequence, item)
       IN /\ clipboard_history' = r.rows
          /\ sqlite_sequence' = r.seq
          /\ last' = Done("insert", item.hash, r.n, r.ret)
    /\ now' = now + 1
    /\ UNCHANGED <<db_conn, storage_limit, theme, settings_table, db_lock, calls, images, monitor_vars, emitted>>

StoreHashExists(hash) ==
    /\ last' = Done("hash_exists", hash, 0, hash_exists(db_conn, clipboard_history, hash))
    /\ UNCHANGED <<store_vars, monitor_vars, emitted>>

StoreDelete(id) ==
    /\ LET r == delete_item(db_conn, clipboard_history, id)
       IN /\ clipboard_history' = r.rows
          /\ last' = Done("delete", id, r.n, r.ret)
    /\ UNCHANGED <<db_conn, sqlite_sequence, now, storage_limit, theme, settings_table, db_lock, calls, images, monitor_vars,
                   emitted>>

StoreClear ==
    /\ LET r == clear_all_items(db_conn, clipboard_history)
       IN /\ clipboard_history' = r.rows
          /\ last' = Done("clear", Cardinality(Pinned(clipboard_history)), r.n, r.ret)
    /\ UNCHANGED <<db_conn, sqlite_sequence, now, storage_limit, theme, settings_table, db_lock, calls, images, monitor_vars,
                   emitted>>

Limits == {None} \cup {Some(n) : n \in -1..MaxContent}

StoreGetAll(limit) ==
    /\ last' = Done("get_all_items", limit, 0,
                    get_all_items(db_conn, clipboard_history, limit))
    /\ UNCHANGED <<store_vars, monitor_vars, emitted>>

StoreGetById(id) ==
    /\ last' = Done("get_item_by_id", id, 0,
                    get_item_by_id(db_conn, clipboard_history, id))
    /\ UNCHANGED <<store_vars, monitor_vars, emitted>>

StoreCount ==
    /\ last' = Done("get_item_count", 0, 0, get_item_count(db_conn, clipboard_history))
    /\ UNCHANGED <<store_vars, monitor_vars, emitted>>

StoreSearch(query, limit) ==
    /\ last' = Done("search_items", <<query, limit>>, 0,
                    search_items(db_conn, clipboard_history, query, limit))
    /\ UNCHANGED <<store_vars, monitor_vars, emitted>>

StoreCleanup(max_count) ==
    /\ LET r == cleanup_old_items(db_conn, clipboard_history, max_count)
       IN /\ clipboard_history' = r.rows
          /\ last' = Done("cleanup", max_count, r.n, r.ret)
    /\ UNCHANGED <<db_conn, sqlite_sequence, now, storage_limit, theme, settings_table, db_lock, calls, images, monitor_vars,
                   emitted>>

NextStore ==
    \/ InitDatabase
    \/ \E text \in Contents, pin \in BOOLEAN : StoreInsert(text, pin)
    \/ \E hash \in Contents : StoreHashExists(hash)
    \/ \E id \in 1..(MaxContent + MaxInserts) : StoreDelete(id)
    \/ StoreClear
    \/ \E max_count \in -1..MaxContent : StoreCleanup(max_count)
    \/ \E limit \in Limits : StoreGetAll(limit)
    \/ \E id \in 1..(MaxContent + MaxInserts) : StoreGetById(id)
    \/ StoreCount
    \/ \E query \in 0..MaxContent, limit \in {None, Some(1)} : StoreSearch(query, limit)

SpecStore == InitStore /\ [][NextStore]_vars

\* ------------------------------------------------- ClipboardMonitor, API
Alive(w) == pc[w] \notin {"none", "exited"}
Free == {w \in Workers : ~Alive(w)}

\* start() without the early return
StartCheckNoGuard ==
    /\ starting < Cardinality(Free)
    /\ starting' = starting + 1
    /\ last' = Done("start", 0, 0, Err("already running"))
    /\ UNCHANGED <<store_vars, emitted, clipboard, running, paused, last_hash,
                   last_hash_lock, pc, snapshot, last_probe, repeat>>

\* start(): `if self.running.load() { warn; return }`
StartCheck ==
    /\ IF running
       THEN /\ last' = Done("start", 0, 0, Err("already running"))
            /\ UNCHANGED starting
       ELSE /\ starting < Cardinality(Free)
            /\ starting' = starting + 1
            /\ UNCHANGED last
    /\ UNCHANGED <<store_vars, emitted, clipboard, running, paused, last_hash,
                   last_hash_lock, pc, snapshot, last_probe, repeat>>


\* a start() that gives the worker a fresh last_hash
StartSpawnResetsHash ==
    /\ starting > 0
    /\ Free # {}
    /\ LET w == CHOOSE x \in Free : \A y \in Free : x <= y
       IN pc' = [pc EXCEPT ![w] = "loop"]
    /\ running' = TRUE
    /\ starting' = starting - 1
    /\ last_hash' = 0
    /\ last' = Done("start", 0, 0, Ok(0))
    /\ UNCHANGED <<store_vars, emitted, clipboard, paused,
                   last_hash_lock, snapshot, last_probe, repeat>>

\* start(): running.store(true); thread::spawn(worker)
StartSpawn ==
    /\ starting > 0
    /\ Free # {}
    /\ LET w == CHOOSE x \in Free : \A y \in Free : x <= y
       IN pc' = [pc EXCEPT ![w] = "loop"]
    /\ running' = TRUE
    /\ starting' = starting - 1
    /\ last' = Done("start", 0, 0, Ok(0))
    /\ UNCHANGED <<store_vars, emitted, clipboard, paused, last_hash,
                   last_hash_lock, snapshot, last_probe, repeat>>


\* a stop() that also clears the paused flag
StopClearsPause ==
    /\ running' = FALSE
    /\ paused' = FALSE
    /\ last' = Done("stop", IF running THEN 1 ELSE 0, 0, Ok(0))
    /\ UNCHANGED <<store_vars, emitted, clipboard, last_hash,
                   last_hash_lock, starting, pc, snapshot, last_probe, repeat>>

\* stop(): running.store(false)
Stop ==
    /\ running' = FALSE
    /\ last' = Done("stop", IF running THEN 1 ELSE 0, 0, Ok(0))
    /\ UNCHANGED <<store_vars, emitted, clipboard, paused, last_hash,
                   last_hash_lock, starting, pc, snapshot, last_probe, repeat>>

\* pause(): paused.store(true)
Pause ==
    /\ paused' = TRUE
    /\ last' = Done("pause", 0, 0, Ok(0))
    /\ UNCHANGED <<store_vars, emitted, clipboard, running, last_hash,
                   last_hash_lock, starting, pc, snapshot, last_probe, repeat>>

\* resume(): paused.store(false)
Resume ==
    /\ paused' = FALSE
    /\ last' = Done("resume", 0, 0, Ok(0))
    /\ UNCHANGED <<store_vars, emitted, clipboard, running, last_hash,
                   last_hash_lock, starting, pc, snapshot, last_probe, repeat>>


\* a clipboard that hands every new content to the waiting workers, which
\* then hold it whatever the clipboard shows at their probe
ClipboardChangeQueues(cb) ==
    /\ cb # clipboard
    /\ clipboard' = cb
    /\ snapshot' = [w \in Workers |->
                        IF pc[w] \in {"sleep", "loop"} THEN read_clipboard(cb)
                        ELSE snapshot[w]]
    /\ UNCHANGED <<store_vars, emitted, last, running, paused, last_hash,
                   last_hash_lock, starting, pc, last_probe, repeat>>

\* another program puts content on the clipboard
ClipboardChange(cb) ==
    /\ cb # clipboard
    /\ clipboard' = cb
    /\ UNCHANGED <<store_vars, emitted, last, running, paused, last_hash,
                   last_hash_lock, starting, pc, snapshot, last_probe, repeat>>

\* ------------------------------------------- ClipboardMonitor, worker thread
\* a worker loop without the paused check
WorkerLoopIgnoresPause(w) ==
    /\ pc[w] = "loop"
    /\ pc' = [pc EXCEPT ![w] = IF ~running THEN "exited" ELSE "probe"]
    /\ UNCHANGED <<store_vars, emitted, last, clipboard, running, paused, last_hash,
                   last_hash_lock, starting, snapshot, last_probe, repeat>>

\* a worker loop whose condition does not read the running flag
WorkerLoopIgnoresStop(w) ==
    /\ pc[w] = "loop"
    /\ IF paused
       THEN /\ pc' = [pc EXCEPT ![w] = "sleep_paused"]
            /\ last_probe' = 0
            /\ repeat' = [repeat EXCEPT ![w] = FALSE]
       ELSE /\ pc' = [pc EXCEPT ![w] = "probe"]
            /\ UNCHANGED <<last_probe, repeat>>
    /\ UNCHANGED <<store_vars, emitted, last, clipboard, running, paused, last_hash,
                   last_hash_lock, starting, snapshot>>

\* `while running.load()`, then `if paused.load() { sleep; continue }`
WorkerLoop(w) ==
    /\ pc[w] = "loop"
    /\ IF ~running
       THEN /\ pc' = [pc EXCEPT ![w] = "exited"]
            /\ UNCHANGED <<last_probe, repeat>>
       ELSE IF paused
       THEN /\ pc' = [pc EXCEPT ![w] = "sleep_paused"]
            /\ last_probe' = 0
            /\ repeat' = [repeat EXCEPT ![w] = FALSE]
       ELSE /\ pc' = [pc EXCEPT ![w] = "probe"]
            /\ UNCHANGED <<last_probe, repeat>>
    /\ UNCHANGED <<store_vars, emitted, last, clipboard, running, paused, last_hash,
                   last_hash_lock, starting, snapshot>>

\* a worker that leaves the loop when Clipboard::new() fails
WorkerOpenFailsExits(w) ==
    /\ pc[w] = "probe"
    /\ pc' = [pc EXCEPT ![w] = "exited"]
    /\ last_probe' = 0
    /\ repeat' = [repeat EXCEPT ![w] = FALSE]
    /\ UNCHANGED <<store_vars, emitted, last, clipboard, running, paused, last_hash,
                   last_hash_lock, starting, snapshot>>


\* a worker whose Err arm of Clipboard::new() continues without the sleep
WorkerOpenFailsNoSleep(w) ==
    /\ pc[w] = "probe"
    /\ pc' = [pc EXCEPT ![w] = "loop"]
    /\ last_probe' = 0
    /\ repeat' = [repeat EXCEPT ![w] = FALSE]
    /\ UNCHANGED <<store_vars, emitted, last, clipboard, running, paused, last_hash,
                   last_hash_lock, starting, snapshot>>

\* Clipboard::new() fails: log, sleep, continue
WorkerOpenFails(w) ==
    /\ pc[w] = "probe"
    /\ pc' = [pc EXCEPT ![w] = "sleep_error"]
    /\ last_probe' = 0
    /\ repeat' = [repeat EXCEPT ![w] = FALSE]
    /\ UNCHANGED <<store_vars, emitted, last, clipboard, running, paused, last_hash,
                   last_hash_lock, starting, snapshot>>

\* Clipboard::new() succeeds; `if let Some(snapshot) = read_clipboard(..)`
WorkerProbe(w) ==
    /\ pc[w] = "probe"
    /\ LET s == read_clipboard(clipboard)
       IN /\ snapshot' = [snapshot EXCEPT ![w] = s]
          /\ pc' = [pc EXCEPT ![w] = IF s = NoSnapshot THEN "sleep" ELSE "lock"]
          /\ repeat' = [repeat EXCEPT ![w] = s # NoSnapshot /\ s.hash = last_probe]
          /\ last_probe' = s.hash
    /\ UNCHANGED <<store_vars, emitted, last, clipboard, running, paused, last_hash,
                   last_hash_lock, starting>>

\* `let mut last = last_hash.lock()`
WorkerLock(w) ==
    /\ pc[w] = "lock"
    /\ last_hash_lock = 0
    /\ last_hash_lock' = w
    /\ pc' = [pc EXCEPT ![w] = "compare"]
    /\ UNCHANGED <<store_vars, emitted, last, clipboard, running, paused, last_hash,
                   starting, snapshot, last_probe, repeat>>

\* a worker that invokes the callback without comparing with last_hash
WorkerCompareNoDedup(w) ==
    /\ pc[w] = "compare"
    /\ last_hash_lock = w
    /\ last_hash' = snapshot[w].hash
    /\ pc' = [pc EXCEPT ![w] = "callback"]
    /\ last_hash_lock' = 0
    /\ UNCHANGED <<store_vars, emitted, last, clipboard, running, paused,
                   starting, snapshot, last_probe, repeat>>


\* a worker without `drop(last)`: the guard lives to the end of the `if let`
\* block, across the callback
WorkerCompareKeepsGuard(w) ==
    /\ pc[w] = "compare"
    /\ last_hash_lock = w
    /\ IF snapshot[w].hash # last_hash
       THEN /\ last_hash' = snapshot[w].hash
            /\ pc' = [pc EXCEPT ![w] = "callback"]
            /\ UNCHANGED <<snapshot, last_hash_lock>>
       ELSE /\ pc' = [pc EXCEPT ![w] = "sleep"]
            /\ snapshot' = [snapshot EXCEPT ![w] = NoSnapshot]
            /\ last_hash_lock' = 0
            /\ UNCHANGED last_hash
    /\ UNCHANGED <<store_vars, emitted, last, clipboard, running, paused,
                   starting, last_probe, repeat>>

\* `if snapshot.hash != *last { *last = hash; drop(last); callback(snapshot) }`;
\* on the other path the guard is dropped at the end of the `if let` block
WorkerCompare(w) ==
    /\ pc[w] = "compare"
    /\ last_hash_lock = w
    /\ IF snapshot[w].hash # last_hash
       THEN /\ last_hash' = snapshot[w].hash
            /\ pc' = [pc EXCEPT ![w] = "callback"]
            /\ UNCHANGED snapshot
       ELSE /\ pc' = [pc EXCEPT ![w] = "sleep"]
            /\ snapshot' = [snapshot EXCEPT ![w] = NoSnapshot]
            /\ UNCHANGED last_hash
    /\ last_hash_lock' = 0
    /\ UNCHANGED <<store_vars, emitted, last, clipboard, running, paused,
                   starting, last_probe, repeat>>

\* the closure passed to start() runs on the worker thread and returns
CallbackReturns(w) ==
    /\ pc[w] = "callback"
    /\ pc' = [pc EXCEPT ![w] = "sleep"]
    /\ snapshot' = [snapshot EXCEPT ![w] = NoSnapshot]
    /\ UNCHANGED <<store_vars, emitted, last, clipboard, running, paused, last_hash,
                   last_hash_lock, starting, last_probe, repeat>>

\* thread::sleep(interval) of the paused path, of the failed Clipboard::new()
\* or of the end of the loop body; then the loop condition again
WorkerSleep(w) ==
    /\ pc[w] \in {"sleep_paused", "sleep_error", "sleep"}
    /\ pc' = [pc EXCEPT ![w] = "loop"]
    /\ UNCHANGED <<store_vars, emitted, last, clipboard, running, paused, last_hash,
                   last_hash_lock, starting, snapshot, last_probe, repeat>>

WorkerStep(w) ==
    \/ WorkerLoop(w)
    \/ WorkerOpenFails(w)
    \/ WorkerProbe(w)
    \/ WorkerLock(w)
    \/ WorkerCompare(w)
    \/ CallbackReturns(w)
    \/ WorkerSleep(w)

\* the monitor under arbitrary calls of its API, with a callback that returns
InitMonitorOnly ==
    /\ db_conn = FALSE
    /\ clipboard_history = {}
    /\ sqlite_sequence = 0
    /\ now = 1
    /\ storage_limit = Limit100
    /\ theme = "light"
    /\ settings_table = [storage_limit |-> storage_limit, theme |-> theme]
    /\ db_lock = 0
    /\ calls = [t \in Threads |-> NoCall]
    /\ images = {}
    /\ InitMonitor
    /\ emitted = 0
    /\ last = Done("none", 0, 0, Ok(0))

NextMonitor ==
    \/ StartCheck
    \/ StartSpawn
    \/ Stop
    \/ Pause
    \/ Resume
    \/ \E cb \in ClipboardStates : ClipboardChange(cb)
    \/ \E w \in Workers : WorkerLoop(w)
    \/ \E w \in Workers : WorkerOpenFails(w)
    \/ \E w \in Workers : WorkerProbe(w)
    \/ \E w \in Workers : WorkerLock(w)
    \/ \E w \in Workers : WorkerCompare(w)
    \/ \E w \in Workers : CallbackReturns(w)
    \/ \E w \in Workers : WorkerSleep(w)

SpecMonitor == InitMonitorOnly /\ [][NextMonitor]_vars

\* the scheduler runs every thread: a sleep ends, a free mutex is taken, the
\* callback returns
SpecMonitorFair == SpecMonitor /\ \A w \in Workers : WF_vars(WorkerStep(w))

\* one started worker probing a clipboard whose formats answer in every way
InitProbe ==
    /\ db_conn = FALSE
    /\ clipboard_history = {}
    /\ sqlite_sequence = 0
    /\ now = 1
    /\ storage_limit = Limit100
    /\ theme = "light"
    /\ settings_table = [storage_limit |-> storage_limit, theme |-> theme]
    /\ db_lock = 0
    /\ calls = [t \in Threads |-> NoCall]
    /\ images = {}
    /\ clipboard \in ProbeInputs
    /\ running = TRUE
    /\ paused = FALSE
    /\ last_hash = 0
    /\ last_hash_lock = 0
    /\ starting = 0
    /\ pc = [w \in Workers |-> IF w = 1 THEN "loop" ELSE "none"]
    /\ snapshot = [w \in Workers |-> NoSnapshot]
    /\ last_probe = 0
    /\ repeat = [w \in Workers |-> FALSE]
    /\ emitted = 0
    /\ last = Done("none", 0, 0, Ok(0))

NextProbe ==
    \/ \E cb \in ProbeInputs : ClipboardChange(cb)
    \/ \E w \in Workers : WorkerLoop(w)
    \/ \E w \in Workers : WorkerOpenFails(w)
    \/ \E w \in Workers : WorkerProbe(w)
    \/ \E w \in Workers : WorkerLock(w)
    \/ \E w \in Workers : WorkerCompare(w)
    \/ \E w \in Workers : CallbackReturns(w)
    \/ \E w \in Workers : WorkerSleep(w)

SpecProbe == InitProbe /\ [][NextProbe]_vars

\* ------------------------------------- lib.rs, handle_new_clipboard_content
\* the closure start_clipboard_monitor passes to start(); it runs on the
\* worker thread, every storage call taking the DB mutex for itself
Returned(hash, ret) == Done("handle_new_clipboard_content", hash, 0, ret)

\* the handler going on to save whatever hash_exists answers
HandlerHashExistsIgnored(w) ==
    /\ pc[w] = "callback"
    /\ pc' = [pc EXCEPT ![w] = IF snapshot[w].content_type = "image"
                               THEN "cb_save" ELSE "cb_insert"]
    /\ UNCHANGED <<store_vars, emitted, clipboard, running, paused, last_hash,
                   last_hash_lock, starting, last_probe, repeat, snapshot, last>>

\* `match storage::hash_exists(&snapshot.hash)`: Ok(true) and Err return
HandlerHashExists(w) ==
    /\ pc[w] = "callback"
    /\ LET r == hash_exists(db_conn, clipboard_history, snapshot[w].hash)
       IN IF r.ok /\ r.val = 0
          THEN /\ pc' = [pc EXCEPT ![w] = IF snapshot[w].content_type = "image"
                                          THEN "cb_save" ELSE "cb_insert"]
               /\ UNCHANGED <<snapshot, last>>
          ELSE /\ pc' = [pc EXCEPT ![w] = "sleep"]
               /\ snapshot' = [snapshot EXCEPT ![w] = NoSnapshot]
               /\ last' = Returned(snapshot[w].hash,
                                   IF r.ok THEN Err("exists") ELSE Err(r.err))
    /\ UNCHANGED <<store_vars, emitted, clipboard, running, paused, last_hash,
                   last_hash_lock, starting, last_probe, repeat>>

\* std::fs::write creates the file and then writes the bytes: it returns Ok
\* with the whole file written, Err with no file, or Err with the file
\* created and cut short (data 0)
WriteOutcomes == {"written", "failed", "partial"}

AfterWrite(files, data, write) ==
    IF write = "failed" THEN files
    ELSE files \cup {[data |-> IF write = "written" THEN data ELSE 0,
                      path |-> Cardinality(files) + 1]}

\* the handler without the return after a failed write
HandlerSaveImageIgnoresFailure(w, write) ==
    /\ pc[w] = "cb_save"
    /\ now <= MaxInserts
    /\ write = "failed" \/ Cardinality(images) < MaxInserts
    /\ images' = AfterWrite(images, snapshot[w].image_data, write)
    /\ pc' = [pc EXCEPT ![w] = "cb_insert"]
    /\ UNCHANGED <<db_conn, clipboard_history, sqlite_sequence, now, storage_limit, theme, settings_table, db_lock, calls,
                   emitted, clipboard, running, paused, last_hash, last_hash_lock,
                   starting, snapshot, last_probe, repeat, last>>

\* ContentType::Image: the PNG bytes are written to images/<uuid>.png, a new
\* file every time; `if std::fs::write(..).is_err() { return }`
HandlerSaveImage(w, write) ==
    /\ pc[w] = "cb_save"
    /\ now <= MaxInserts
    /\ write = "failed" \/ Cardinality(images) < MaxInserts
    /\ images' = AfterWrite(images, snapshot[w].image_data, write)
    /\ IF write = "written"
       THEN /\ pc' = [pc EXCEPT ![w] = "cb_insert"]
            /\ UNCHANGED <<snapshot, last>>
       ELSE /\ pc' = [pc EXCEPT ![w] = "sleep"]
            /\ snapshot' = [snapshot EXCEPT ![w] = NoSnapshot]
            /\ last' = Returned(snapshot[w].hash, Err("AssetWrite"))
    /\ UNCHANGED <<db_conn, clipboard_history, sqlite_sequence, now, storage_limit, theme, settings_table, db_lock, calls,
                   emitted, clipboard, running, paused, last_hash, last_hash_lock,
                   starting, last_probe, repeat>>


\* a handler that goes on to the eviction and the event whatever the insert
\* returned
HandlerInsertThenEmitAlways(w, execute_ok) ==
    /\ pc[w] = "cb_insert"
    /\ now <= MaxInserts
    /\ LET item == IF snapshot[w].content_type = "image"
                   THEN new_image(Cardinality(images), snapshot[w].hash, now)
                   ELSE new_text(snapshot[w].plain_text, snapshot[w].hash, now)
           r == IF execute_ok \/ ~db_conn
                THEN insert_clipboard_item(db_conn, clipboard_history,
                                           sqlite_sequence, item)
                ELSE [n |-> 0, ret |-> Err("Sqlite"), rows |-> clipboard_history,
                      seq |-> sqlite_sequence]
       IN /\ clipboard_history' = r.rows
          /\ sqlite_sequence' = r.seq
    /\ pc' = [pc EXCEPT ![w] = "cb_cleanup"]
    /\ now' = now + 1
    /\ UNCHANGED <<db_conn, storage_limit, theme, settings_table, db_lock, calls, images,
                   emitted, clipboard, running, paused, last_hash, last_hash_lock,
                   starting, last_probe, repeat, snapshot, last>>

\* ClipboardItem::new_text(0, text, hash) or new_image(0, path, thumbnail, hash)
\* of the file just written, then `match storage::insert_clipboard_item(&item)`;
\* execute_ok: conn.execute does not fail on the file (disk full, I/O error)
HandlerInsert(w, execute_ok) ==
    /\ pc[w] = "cb_insert"
    /\ now <= MaxInserts
    /\ LET item == IF snapshot[w].content_type = "image"
                   THEN new_image(Cardinality(images), snapshot[w].hash, now)
                   ELSE new_text(snapshot[w].plain_text, snapshot[w].hash, now)
           r == IF execute_ok \/ ~db_conn
                THEN insert_clipboard_item(db_conn, clipboard_history,
                                           sqlite_sequence, item)
                ELSE [n |-> 0, ret |-> Err("Sqlite"), rows |-> clipboard_history,
                      seq |-> sqlite_sequence]
       IN /\ clipboard_history' = r.rows
          /\ sqlite_sequence' = r.seq
          /\ IF r.ret.ok
             THEN /\ pc' = [pc EXCEPT ![w] = "cb_cleanup"]
                  /\ UNCHANGED <<snapshot, last>>
             ELSE /\ pc' = [pc EXCEPT ![w] = "sleep"]
                  /\ snapshot' = [snapshot EXCEPT ![w] = NoSnapshot]
                  /\ last' = Returned(snapshot[w].hash, r.ret)
    /\ now' = now + 1
    /\ UNCHANGED <<db_conn, storage_limit, theme, settings_table, db_lock, calls, images, emitted, clipboard, running, paused,
                   last_hash, last_hash_lock, starting, last_probe, repeat>>

\* `let limit = get_settings().storage_limit.as_i32();
\*  if limit > 0 { if let Err(e) = cleanup_old_items(limit) { warn } }`
HandlerCleanup(w) ==
    /\ pc[w] = "cb_cleanup"
    /\ LET limit == storage_limit
           r == cleanup_old_items(db_conn, clipboard_history, limit)
       IN IF limit > 0
          THEN /\ clipboard_history' = r.rows
               /\ last' = Done("cleanup", limit, r.n, r.ret)
          ELSE UNCHANGED <<clipboard_history, last>>
    /\ pc' = [pc EXCEPT ![w] = "cb_emit"]
    /\ UNCHANGED <<db_conn, sqlite_sequence, now, storage_limit, theme, settings_table, db_lock, calls,
                   images, emitted, clipboard, running, paused, last_hash,
                   last_hash_lock, starting, snapshot, last_probe, repeat>>

\* app.emit("clipboard-updated", ()), and the callback returns
HandlerEmit(w) ==
    /\ pc[w] = "cb_emit"
    /\ emitted' = emitted + 1
    /\ pc' = [pc EXCEPT ![w] = "sleep"]
    /\ snapshot' = [snapshot EXCEPT ![w] = NoSnapshot]
    /\ last' = Returned(snapshot[w].hash, Ok(sqlite_sequence))
    /\ UNCHANGED <<store_vars, clipboard, running, paused, last_hash,
                   last_hash_lock, starting, last_probe, repeat>>



\* app.emit returns Err: `log::warn!`, and the callback returns
HandlerEmitFails(w) ==
    /\ pc[w] = "cb_emit"
    /\ pc' = [pc EXCEPT ![w] = "sleep"]
    /\ snapshot' = [snapshot EXCEPT ![w] = NoSnapshot]
    /\ last' = Returned(snapshot[w].hash, Err("Emit"))
    /\ UNCHANGED <<store_vars, emitted, clipboard, running, paused, last_hash,
                   last_hash_lock, starting, last_probe, repeat>>

\* ------------------------------------- settings.rs and commands/handlers.rs
\* StorageLimit::from_i32; a StorageLimit is written as its as_i32
from_i32(value) ==
    IF value \in {Limit100, Limit200, Limit500} THEN value ELSE Unlimited

\* Settings::save: save_setting for theme, storage_limit, auto_start and
\* shortcut in this order, `?` after each.  `saved` is how far it got: "none"
\* (the first fails), "theme" (the second fails), "storage_limit" (a later one
\* fails) or "all"
SaveOutcomes == {"all", "none", "theme", "storage_limit"}

save(table, settings, saved) ==
    IF saved = "none" THEN table
    ELSE IF saved = "theme" THEN [table EXCEPT !.theme = settings.theme]
    ELSE [storage_limit |-> settings.storage_limit, theme |-> settings.theme]

\* the values the frontend can send
ThemeUpdates == {None, Some("dark"), Some("light")}
LimitUpdates == {None} \cup {Some(l) : l \in {Unlimited, 0, 1, Limit100, Limit200, Limit500}}

\* commands::update_settings(updates): the copy of SETTINGS is edited,
\* cleanup_old_items(limit) runs with the value received when it is positive,
\* the autostart and shortcut plugins are called (plugins_ok: neither fails)
\* and config::update_settings saves the copy and, when every key was saved,
\* stores it in SETTINGS
UpdateSettings(theme_upd, limit_upd, plugins_ok, saved) ==
    /\ db_conn \/ saved = "none"
    /\ LET limit == CHOOSE l \in limit_upd : TRUE
           evicts == limit_upd # None /\ limit > 0
           settings ==
               [storage_limit |-> IF limit_upd = None THEN storage_limit
                                  ELSE from_i32(limit),
                theme |-> IF theme_upd = None THEN theme
                          ELSE IF theme_upd = Some("dark") THEN "dark" ELSE "light"]
           r == IF evicts THEN cleanup_old_items(db_conn, clipboard_history, limit)
                ELSE [n |-> 0, ret |-> Ok(0), rows |-> clipboard_history]
           stored == plugins_ok /\ saved = "all"
       IN /\ clipboard_history' = r.rows
          /\ settings_table' = IF plugins_ok THEN save(settings_table, settings, saved)
                               ELSE settings_table
          /\ theme' = IF stored THEN settings.theme ELSE theme
          /\ storage_limit' = IF stored THEN settings.storage_limit ELSE storage_limit
          /\ last' = [op |-> "update_settings", arg |-> <<theme_upd, limit_upd>>,
                      n |-> r.n,
                      ret |-> IF ~plugins_ok THEN Err("Plugin")
                              ELSE IF saved # "all" THEN Err("Save") ELSE Ok(0),
                      cleanup |-> IF evicts THEN Some(limit) ELSE None]
    /\ UNCHANGED <<db_conn, sqlite_sequence, now, images, db_lock, calls, monitor_vars,
                   emitted>>

\* ------------------------------------------------ the application, lib.rs run
\* after setup: init_database, init_settings, start_clipboard_monitor (the one
\* start() of the application; nothing in it calls stop, pause or resume)
InitApp(files, limits) ==
    /\ db_conn = TRUE
    /\ clipboard_history \in files
    /\ sqlite_sequence = Cardinality(clipboard_history)
    /\ now = 1
    /\ storage_limit \in limits
    /\ theme = "light"
    /\ settings_table = [storage_limit |-> storage_limit, theme |-> theme]
    /\ db_lock = 0
    /\ calls = [t \in Threads |-> NoCall]
    /\ images = {}
    /\ clipboard = EmptyClipboard
    /\ running = TRUE
    /\ paused = FALSE
    /\ last_hash = 0
    /\ last_hash_lock = 0
    /\ starting = 0
    /\ pc = [w \in Workers |-> IF w = 1 THEN "loop" ELSE "none"]
    /\ snapshot = [w \in Workers |-> NoSnapshot]
    /\ last_probe = 0
    /\ repeat = [w \in Workers |-> FALSE]
    /\ emitted = 0
    /\ last = Done("none", 0, 0, Ok(0))

Init == InitApp(Files(1..MaxClip, MaxPersisted), StorageLimits)

NextCapture ==
    \/ \E cb \in ClipboardStates : ClipboardChange(cb)
    \/ \E w \in Workers : WorkerLoop(w)
    \/ \E w \in Workers : WorkerOpenFails(w)
    \/ \E w \in Workers : WorkerProbe(w)
    \/ \E w \in Workers : WorkerLock(w)
    \/ \E w \in Workers : WorkerCompare(w)
    \/ \E w \in Workers : HandlerHashExists(w)
    \/ \E w \in Workers, write \in WriteOutcomes : HandlerSaveImage(w, write)
    \/ \E w \in Workers, execute_ok \in BOOLEAN : HandlerInsert(w, execute_ok)
    \/ \E w \in Workers : HandlerCleanup(w)
    \/ \E w \in Workers : HandlerEmit(w)
    \/ \E w \in Workers : WorkerSleep(w)

\* commands::delete_item and commands::clear_all_history from the frontend
Next ==
    \/ NextCapture
    \/ \E id \in 1..(MaxPersisted + MaxInserts) : StoreDelete(id)
    \/ StoreClear

Spec == Init /\ [][Next]_vars


\* the application with the settings page in use: the capture runs while the
\* frontend sends storage limits with update_settings
InitSettings == InitApp(Files(1..MaxClip, MaxPersisted), {Limit100})

\* texts are copied and storage limits are sent
NextSettings ==
    \/ \E text \in 1..MaxClip : ClipboardChange(Clip(0, FALSE, 0, 0, text))
    \/ \E w \in Workers : WorkerLoop(w)
    \/ \E w \in Workers : WorkerProbe(w)
    \/ \E w \in Workers : WorkerLock(w)
    \/ \E w \in Workers : WorkerCompare(w)
    \/ \E w \in Workers : HandlerHashExists(w)
    \/ \E w \in Workers, execute_ok \in BOOLEAN : HandlerInsert(w, execute_ok)
    \/ \E w \in Workers : HandlerCleanup(w)
    \/ \E w \in Workers : HandlerEmit(w)
    \/ \E w \in Workers : WorkerSleep(w)
    \/ \E limit_upd \in LimitUpdates, plugins_ok \in BOOLEAN, saved \in {"all", "none"} :
            UpdateSettings(None, limit_upd, plugins_ok, saved)

SpecSettings == InitSettings /\ [][NextSettings]_vars


\* the worker is executing the callback
InCallback(w) == pc[w] \in {"callback", "cb_save", "cb_insert", "cb_cleanup", "cb_emit"}

\* a burst of copies: the user copies text 1, text 2, .. text MaxClip and
\* then a bitmap, each copy after the first made while the capture callback
\* of an earlier one is executing; the history is empty at start-up, and the
\* store and the disk do not fail
NextContent(cb) ==
    IF cb = EmptyClipboard THEN Clip(0, FALSE, 0, 0, 1)
    ELSE IF cb.text < MaxClip THEN Clip(0, FALSE, 0, 0, cb.text + 1)
    ELSE Clip(MaxClip + 1, TRUE, 0, 0, -1)

InitBurst == InitApp({{}}, StorageLimits)

ClipboardBurst ==
    /\ clipboard.image = 0
    /\ clipboard = EmptyClipboard \/ \E w \in Workers : InCallback(w)
    /\ ClipboardChange(NextContent(clipboard))

NextBurst ==
    \/ ClipboardBurst
    \/ \E w \in Workers : WorkerLoop(w)
    \/ \E w \in Workers : WorkerProbe(w)
    \/ \E w \in Workers : WorkerLock(w)
    \/ \E w \in Workers : WorkerCompare(w)
    \/ \E w \in Workers : HandlerHashExists(w)
    \/ \E w \in Workers : HandlerSaveImage(w, "written")
    \/ \E w \in Workers : HandlerInsert(w, TRUE)
    \/ \E w \in Workers : HandlerCleanup(w)
    \/ \E w \in Workers : HandlerEmit(w)
    \/ \E w \in Workers : WorkerSleep(w)

SpecBurst == InitBurst /\ [][NextBurst]_vars

\* the callback on the started worker as a unit: the monitor is started
\* before init_database has run, stop() may be called at any time, and the
\* store's operations are called from outside while the database is not open
\* (their calls on an open database are those of SpecStore and Spec)
InitHandler ==
    /\ db_conn = FALSE
    /\ clipboard_history \in Files(1..MaxClip, MaxPersisted)
    /\ sqlite_sequence = Cardinality(clipboard_history)
    /\ now = 1
    /\ storage_limit = Limit100
    /\ theme = "light"
    /\ settings_table = [storage_limit |-> storage_limit, theme |-> theme]
    /\ db_lock = 0
    /\ calls = [t \in Threads |-> NoCall]
    /\ images = {}
    /\ clipboard = EmptyClipboard
    /\ running = TRUE
    /\ paused = FALSE
    /\ last_hash = 0
    /\ last_hash_lock = 0
    /\ starting = 0
    /\ pc = [w \in Workers |-> IF w = 1 THEN "loop" ELSE "none"]
    /\ snapshot = [w \in Workers |-> NoSnapshot]
    /\ last_probe = 0
    /\ repeat = [w \in Workers |-> FALSE]
    /\ emitted = 0
    /\ last = Done("none", 0, 0, Ok(0))

\* the steps of the worker thread with handle_new_clipboard_content as its
\* callback
HandlerStep(w) ==
    \/ WorkerLoop(w)
    \/ WorkerOpenFails(w)
    \/ WorkerProbe(w)
    \/ WorkerLock(w)
    \/ WorkerCompare(w)
    \/ HandlerHashExists(w)
    \/ \E write \in WriteOutcomes : HandlerSaveImage(w, write)
    \/ \E execute_ok \in BOOLEAN : HandlerInsert(w, execute_ok)
    \/ HandlerCleanup(w)
    \/ HandlerEmit(w)
    \/ WorkerSleep(w)

CallsBeforeInit ==
    \/ \E text \in 1..MaxClip : StoreInsert(text, FALSE)
    \/ StoreHashExists(1)
    \/ StoreDelete(1)
    \/ StoreClear
    \/ StoreCleanup(1)
    \/ StoreGetAll(None)
    \/ StoreGetById(1)
    \/ StoreCount
    \/ StoreSearch(0, None)

NextHandler ==
    \/ NextCapture
    \/ InitDatabase
    \/ Stop
    \/ ~db_conn /\ CallsBeforeInit

\* the scheduler runs the worker thread: its sleep ends, the free mutexes are
\* taken, the storage calls return
SpecHandler ==
    InitHandler /\ [][NextHandler]_vars /\ \A w \in Workers : WF_vars(HandlerStep(w))

\* a session that starts on the default settings with a history at, or just
\* under, the configured limit: rows of earlier sessions, none pinned, none of
\* them a content of this session
FullFiles ==
    {FileRows([i \in 1..n |-> MaxClip + 1 + i], [i \in 1..n |-> FALSE])
        : n \in (Limit100 - MaxPersisted)..Limit100}

InitCapture == InitApp(FullFiles, {Limit100})

SpecCapture == InitCapture /\ [][NextCapture]_vars


\* the capture with an event channel that can refuse the event
InitNotify == InitApp(Files(1..MaxClip, MaxPersisted), {Limit100, Unlimited})

NextNotify ==
    \/ NextCapture
    \/ \E w \in Workers : HandlerEmitFails(w)

SpecNotify == InitNotify /\ [][NextNotify]_vars


\* the commands of the frontend that reach the history store: 
\* get_clipboard_history, get_clipboard_item, delete_item, clear_all_history,
\* search_clipboard, get_history_count and update_settings
Commands ==
    \/ StoreGetAll(None)
    \/ \E id \in 1..MaxPersisted : StoreGetById(id)
    \/ \E id \in 1..(MaxPersisted + MaxInserts) : StoreDelete(id)
    \/ StoreClear
    \/ StoreSearch(0, None)
    \/ StoreCount
    \/ \E limit \in {1, Limit200} : UpdateSettings(None, Some(limit), TRUE, "all")

\* the capture of copied texts while the frontend sends its commands
InitCommands == InitApp(Files(1..MaxClip, MaxPersisted), {Limit100})

NextCommands ==
    \/ \E text \in 1..MaxClip : ClipboardChange(Clip(0, FALSE, 0, 0, text))
    \/ \E w \in Workers : WorkerLoop(w)
    \/ \E w \in Workers : WorkerProbe(w)
    \/ \E w \in Workers : WorkerLock(w)
    \/ \E w \in Workers : WorkerCompare(w)
    \/ \E w \in Workers : HandlerHashExists(w)
    \/ \E w \in Workers, execute_ok \in BOOLEAN : HandlerInsert(w, execute_ok)
    \/ \E w \in Workers : HandlerCleanup(w)
    \/ \E w \in Workers : HandlerEmit(w)
    \/ \E w \in Workers : WorkerSleep(w)
    \/ Commands

SpecCommands == InitCommands /\ [][NextCommands]_vars


\* the capture of copied texts when the store fails once: the first
\* conn.execute of the session may return an error (a busy or full disk),
\* every later one succeeds; the monitor runs unpaused, the scheduler runs
\* the worker thread, and the user copies no more once the session has built
\* all but one of its items (so that no capture waits for the clock)
InitTransient == InitApp(Files(1..MaxClip, 1), {Limit100, Unlimited})

TransientStep(w) ==
    \/ WorkerLoop(w)
    \/ WorkerProbe(w)
    \/ WorkerLock(w)
    \/ WorkerCompare(w)
    \/ HandlerHashExists(w)
    \/ \E execute_ok \in BOOLEAN :
            (execute_ok \/ now = 1) /\ HandlerInsert(w, execute_ok)
    \/ HandlerCleanup(w)
    \/ HandlerEmit(w)
    \/ WorkerSleep(w)

NextTransient ==
    \/ \E text \in 1..MaxClip :
            now < MaxInserts /\ ClipboardChange(Clip(0, FALSE, 0, 0, text))
    \/ \E w \in Workers : TransientStep(w)

SpecTransient ==
    InitTransient /\ [][NextTransient]_vars /\ \A w \in Workers : WF_vars(TransientStep(w))


\* the settings page: the frontend sends themes and storage limits, the
\* plugins and every save_setting of Settings::save may fail
InitPersist == InitApp(Files(1..MaxClip, MaxPersisted), StorageLimits)

NextPersist ==
    \E theme_upd \in ThemeUpdates, limit_upd \in LimitUpdates,
       plugins_ok \in BOOLEAN, saved \in SaveOutcomes :
        UpdateSettings(theme_upd, limit_upd, plugins_ok, saved)

SpecPersist == InitPersist /\ [][NextPersist]_vars

\* ---------------------------------------------------- claims on the store
\* C1: insert_clipboard_item with a hash that is already stored is rejected
\* with an error; the table, and with it the stored record's id, created_at,
\* is_pinned and payload, is left as it was.
C1_DuplicateInsertRejected ==
    [][\A text \in Contents, pin \in BOOLEAN :
         (/\ StoreInsert(text, pin)
          /\ db_conn
          /\ compute_hash(text) \in Hashes(clipboard_history))
         => (/\ ~last'.ret.ok
             /\ clipboard_history' = clipboard_history)]_vars

\* C2: with P pinned and U unpinned rows and 0 < N < U, cleanup_old_items(N)
\* leaves exactly the pinned rows and the N unpinned rows of greatest
\* created_at (P + N rows; every deleted row unpinned and older than every
\* surviving unpinned row).
C2_EvictionKeepsPinnedAndNewest ==
    [][\A N \in 1..MaxContent :
         (/\ StoreCleanup(N)
          /\ db_conn
          /\ N < Cardinality(Unpinned(clipboard_history)))
         => (/\ clipboard_history' = Pinned(clipboard_history)
                    \cup MostRecent(Unpinned(clipboard_history), N)
             /\ Cardinality(clipboard_history')
                    = Cardinality(Pinned(clipboard_history)) + N)]_vars

\* C3: cleanup_old_items(max) deletes no pinned row, whatever max is: the set
\* of pinned rows is the same before and after the call.
C3_EvictionKeepsPinned ==
    [][\A max_count \in -1..MaxContent :
         StoreCleanup(max_count)
         => Pinned(clipboard_history') = Pinned(clipboard_history)]_vars

\* C3 witness: an eviction ran on an open database with max > 0 smaller than
\* the number of pinned rows, and unpinned rows present.
C3_Witness ==
    /\ last.op = "cleanup" /\ db_conn
    /\ last.arg > 0
    /\ last.arg < Cardinality(Pinned(clipboard_history))
    /\ Unpinned(clipboard_history) # {}

\* C5: in every state of the store no two rows have the same hash.
C5_HashUnique ==
    \A r, q \in clipboard_history : r.hash = q.hash => r = q

\* C5 witness: an insert met a stored row of the same hash, with other rows
\* in the table.
C5_Witness ==
    /\ last.op = "insert" /\ last.ret.ok /\ last.n = 1
    /\ Cardinality(clipboard_history) >= 2

\* -------------------------------------------------- claims on the capture

\* C4: with a configured limit N > 0, whenever a run of the capture callback
\* has completed (and no other is under way) the table holds at most N
\* unpinned rows.
C4_UnpinnedWithinLimit ==
    (/\ last.op = "handle_new_clipboard_content"
     /\ storage_limit > 0
     /\ \A w \in Workers : ~InCallback(w))
    => Cardinality(Unpinned(clipboard_history)) <= storage_limit

\* C6: when the probe yields on a tick the fingerprint it yielded on the tick
\* before, the callback is not invoked on that tick; the tick that finds a
\* fingerprint other than the remembered one invokes it, once, and remembers
\* the fingerprint.
C6_OneCallbackPerRun ==
    /\ [](\A w \in Workers : InCallback(w) => ~repeat[w])
    /\ [][\A w \in Workers :
            (WorkerCompare(w) /\ snapshot[w].hash # last_hash)
            => (/\ pc'[w] = "callback"
                /\ last_hash' = snapshot[w].hash
                /\ \A v \in Workers \ {w} : pc'[v] = pc[v])]_vars

\* C6 witness: a tick probed the fingerprint of the tick before it, which was
\* emitted, and went to its sleep without the callback.
C6_Witness ==
    \E w \in Workers :
        /\ pc[w] = "sleep" /\ repeat[w]
        /\ last_probe # 0 /\ last_hash = last_probe
        /\ last.op = "handle_new_clipboard_content" /\ last.arg = last_probe

\* ------------------------------------------------- claims on the monitor
Fires(w) == pc[w] # "callback" /\ pc'[w] = "callback"

\* C7 as stated: while the paused flag is set no callback fires, in any
\* interleaving; a tick that finds a new fingerprint fires one callback.
C7_NoCallbackWhilePaused ==
    [][/\ paused => \A w \in Workers : ~Fires(w)
       /\ \A w \in Workers :
            (WorkerCompare(w) /\ snapshot[w].hash # last_hash) => Fires(w)]_vars

\* C7 amended: a tick whose check finds the paused flag set goes to its sleep
\* without reading the clipboard, firing the callback or touching the
\* remembered fingerprint; a callback fires only at the comparison of a tick
\* that passed the check, which then fires exactly one callback for a
\* fingerprint other than the remembered one.
C7_PausedTickSkips ==
    [][/\ \A w \in Workers :
            (WorkerLoop(w) /\ running /\ paused)
            => (/\ pc'[w] = "sleep_paused"
                /\ UNCHANGED <<last_hash, snapshot, clipboard>>)
       /\ \A w \in Workers :
            Fires(w) => (/\ pc[w] = "compare"
                         /\ snapshot[w].hash # last_hash
                         /\ last_hash' = snapshot[w].hash)
       /\ \A w \in Workers :
            (WorkerCompare(w) /\ snapshot[w].hash # last_hash)
            => (Fires(w) /\ \A v \in Workers \ {w} : ~Fires(v))]_vars

\* C7 witness: a tick was skipped for the pause while the clipboard holds a
\* fingerprint other than the remembered one.
C7_Witness ==
    /\ paused
    /\ \E w \in Workers : pc[w] = "sleep_paused"
    /\ read_clipboard(clipboard).hash \notin {0, last_hash}

\* C8: at most one worker thread is alive in the poll loop.
C8_AtMostOneWorker ==
    Cardinality({w \in Workers : Alive(w)}) <= 1

\* C9: start() with the running flag set spawns no worker and changes nothing
\* of the monitor; start() past the check sets running and spawns one worker.
C9_StartFrame ==
    [][/\ (StartCheck /\ running)
            => UNCHANGED <<running, paused, last_hash, last_hash_lock,
                           starting, pc, snapshot>>
       /\ StartSpawn
            => (/\ running'
                /\ UNCHANGED <<paused, last_hash>>
                /\ \E w \in Workers :
                     /\ ~Alive(w)
                     /\ pc' = [pc EXCEPT ![w] = "loop"])]_vars

\* C9 witness: start() returned early on a running monitor with its worker
\* alive.
C9_Witness ==
    /\ last.op = "start" /\ ~last.ret.ok
    /\ running
    /\ Cardinality({w \in Workers : Alive(w)}) = 1

\* C10: a stop() on a stopped monitor changes nothing; a worker that reaches
\* the loop condition with the flag cleared leaves the loop instead of
\* starting a tick; once the flag is cleared every worker has left the loop
\* eventually, unless a start() sets the flag again.
C10_StopIdempotentWorkerExits ==
    /\ [][(Stop /\ ~running)
            => UNCHANGED <<running, paused, last_hash, last_hash_lock,
                           starting, pc, snapshot>>]_vars
    /\ [][\A w \in Workers :
            (WorkerLoop(w) /\ ~running) => pc'[w] = "exited"]_vars
    /\ (~running) ~> (running \/ \A w \in Workers : ~Alive(w))

\* C10 witness: stop() was called on a monitor already stopped, and the worker
\* has left the loop.
C10_Witness ==
    /\ last.op = "stop" /\ last.arg = 0
    /\ \E w \in Workers : pc[w] = "exited"
    /\ \A w \in Workers : ~Alive(w)

\* ------------------------------------------- claims on the store, continued
\* C13: on an open store, inserting text H1 into the empty table gives 1 row;
\* inserting H1 again is rejected and the row stays as it was; inserting H2
\* gives 2 rows; with the H1 row pinned and the H2 row not, eviction with
\* max 1 deletes the H2 row and keeps the H1 row, 1 row.
C13_EndToEndScenario ==
    [][/\ \A text \in Contents :
            (StoreInsert(text, FALSE) /\ db_conn /\ clipboard_history = {})
            => (last'.ret.ok /\ Cardinality(clipboard_history') = 1)
       /\ \A text \in Contents :
            (/\ StoreInsert(text, FALSE) /\ db_conn
             /\ Cardinality(clipboard_history) = 1
             /\ compute_hash(text) \in Hashes(clipboard_history))
            => (~last'.ret.ok /\ clipboard_history' = clipboard_history)
       /\ \A text \in Contents :
            (/\ StoreInsert(text, FALSE) /\ db_conn
             /\ Cardinality(clipboard_history) = 1
             /\ compute_hash(text) \notin Hashes(clipboard_history))
            => (last'.ret.ok /\ Cardinality(clipboard_history') = 2)
       /\ (/\ StoreCleanup(1) /\ db_conn
           /\ Cardinality(clipboard_history) = 2
           /\ Cardinality(Pinned(clipboard_history)) = 1)
            => clipboard_history' = Pinned(clipboard_history)]_vars

\* C14: cleanup_old_items(max_count) with max_count <= 0 returns Ok(0) and
\* leaves the table, the id counter and the connection as they were, whatever
\* the table holds and whether or not the database was opened.
C14_UnlimitedIsNoOp ==
    [][\A max_count \in -1..0 :
            StoreCleanup(max_count)
            => (/\ last'.ret = Ok(0) /\ last'.n = 0
                /\ UNCHANGED <<db_conn, clipboard_history, sqlite_sequence,
                               storage_limit>>)]_vars

\* C14 witness: the unlimited mode ran on an open store of several rows.
C14_Witness ==
    /\ last.op = "cleanup" /\ last.arg <= 0
    /\ db_conn
    /\ Cardinality(clipboard_history) >= 2

\* C15: a cleanup_old_items(max_count) that directly follows a
\* cleanup_old_items(max_count), no operation between them, deletes nothing
\* and leaves the table as the first call left it.
C15_EvictionIdempotent ==
    [][\A max_count \in -1..MaxContent :
            (StoreCleanup(max_count) /\ last.op = "cleanup" /\ last.arg = max_count)
            => (clipboard_history' = clipboard_history /\ last'.n = 0)]_vars

\* C15 witness: eviction ran with a positive max on an open store that holds
\* pinned rows and more unpinned rows than max.
C15_Witness ==
    /\ last.op = "cleanup" /\ last.arg > 0
    /\ db_conn
    /\ Pinned(clipboard_history) # {}
    /\ Cardinality(Unpinned(clipboard_history)) > last.arg

\* C16: the sequence get_all_items returned has every pinned row before every
\* unpinned row and each group in descending created_at order; no row left
\* out would come before a row of the result; with limit Some(n), n > 0, it
\* holds n rows (all of them if the table has fewer), otherwise all rows.
C16_ListingOrder ==
    (last.op = "get_all_items" /\ last.ret.ok)
    => LET s == last.ret.val
           limit == last.arg
           count == Cardinality(clipboard_history)
           InOrder(r, q) == /\ r.is_pinned \/ ~q.is_pinned
                            /\ r.is_pinned = q.is_pinned => r.created_at >= q.created_at
       IN /\ \A i, j \in 1..Len(s) : i < j => s[i] # s[j] /\ InOrder(s[i], s[j])
          /\ {s[i] : i \in 1..Len(s)} \subseteq clipboard_history
          /\ \A r \in clipboard_history \ {s[i] : i \in 1..Len(s)} :
                \A i \in 1..Len(s) : InOrder(s[i], r)
          /\ IF \E n \in limit : n > 0
             THEN \A n \in limit : Len(s) = IF n < count THEN n ELSE count
             ELSE Len(s) = count

\* C16 witness: a listing cut by its limit, of a table in which a pinned row
\* is older than an unpinned one.
C16_Witness ==
    /\ last.op = "get_all_items" /\ last.ret.ok
    /\ Len(last.ret.val) = 2
    /\ Cardinality(clipboard_history) > 2
    /\ \E r \in Pinned(clipboard_history), q \in Unpinned(clipboard_history) :
            r.created_at < q.created_at

\* -------------------------------------------------- claims on the probe
\* C17: a probe yields one snapshot or none, from the first strategy that
\* succeeds in the order direct pixel buffer, legacy bitmap, file list, text;
\* the legacy bitmap is read only when the direct image query failed: after a
\* direct image whose encoding failed the probe goes on to the file list.
C17_ProbeOrder ==
    [][\A w \in Workers :
        WorkerProbe(w) =>
          LET cb == clipboard
              s == snapshot'[w]
          IN /\ (cb.image # 0 /\ cb.png)
                    => s = ImageSnapshot(cb.image, compute_hash(cb.image))
             /\ (cb.image = 0 /\ cb.bitmap # 0)
                    => s = ImageSnapshot(cb.bitmap, compute_hash(cb.bitmap))
             /\ ((cb.image # 0 /\ ~cb.png) \/ (cb.image = 0 /\ cb.bitmap = 0))
                    => /\ cb.files # 0
                            => s = ImageSnapshot(cb.files, compute_hash(cb.files))
                       /\ (cb.files = 0 /\ cb.text > 0)
                            => s = TextSnapshot(cb.text, compute_hash(cb.text))
                       /\ (cb.files = 0 /\ cb.text <= 0) => s = NoSnapshot]_vars

\* C17 witness: a probe took the image of the file list while the clipboard
\* held a direct image that does not encode and a legacy bitmap.
C17_Witness ==
    \E w \in Workers :
        /\ pc[w] = "lock"
        /\ clipboard.image # 0 /\ ~clipboard.png
        /\ clipboard.bitmap # 0 /\ clipboard.files # 0
        /\ clipboard.bitmap # clipboard.files
        /\ snapshot[w] = ImageSnapshot(clipboard.files, compute_hash(clipboard.files))

\* C18: with no image format, no image in the file list and the text absent
\* or empty, the probe yields no snapshot: the tick goes to its sleep without
\* the comparison or the callback and the remembered fingerprint stays.
C18_NothingToCapture ==
    [][\A w \in Workers :
        (/\ WorkerProbe(w)
         /\ clipboard.image = 0 /\ clipboard.bitmap = 0
         /\ clipboard.files = 0 /\ clipboard.text <= 0)
        => (/\ snapshot'[w] = NoSnapshot
            /\ pc'[w] = "sleep"
            /\ last_hash' = last_hash)]_vars

\* C18 witness: after a capture, a tick probed a clipboard whose only content
\* is the empty text and went to its sleep.
C18_Witness ==
    \E w \in Workers :
        /\ pc[w] = "sleep" /\ last_probe = 0
        /\ snapshot[w] = NoSnapshot
        /\ clipboard = Clip(0, FALSE, 0, 0, 0)
        /\ last_hash # 0

\* ------------------------------------------ claims on the capture, continued
Sleeps == {"sleep", "sleep_paused", "sleep_error"}

\* C11: a worker leaves the loop only at the loop condition, with the running
\* flag cleared, and only stop() clears the flag; a tick in which
\* Clipboard::new() fails, the probe yields nothing, hash_exists fails, the
\* asset write fails or the insert fails ends in the tick's sleep, and a
\* sleeping worker comes back to the loop condition.
C11_FailuresDoNotEndLoop ==
    /\ [][\A w \in Workers :
            /\ (pc[w] # "exited" /\ pc'[w] = "exited") => (pc[w] = "loop" /\ ~running)
            /\ WorkerOpenFails(w) => pc'[w] \in Sleeps
            /\ (WorkerProbe(w) /\ snapshot'[w] = NoSnapshot) => pc'[w] \in Sleeps
            /\ (HandlerHashExists(w) /\ ~db_conn) => pc'[w] \in Sleeps
            /\ \A write \in {"failed", "partial"} :
                    HandlerSaveImage(w, write) => pc'[w] \in Sleeps
            /\ (HandlerInsert(w, FALSE) \/ (HandlerInsert(w, TRUE) /\ ~db_conn))
                    => pc'[w] \in Sleeps]_vars
    /\ [][(running /\ ~running') => Stop]_vars
    /\ \A w \in Workers : (pc[w] \in Sleeps) ~> (pc[w] = "loop")

\* C11 witness: the insert of a capture failed and the worker is in its next
\* tick.
C11_Witness ==
    \E w \in Workers :
        /\ pc[w] = "probe" /\ running
        /\ last.op = "handle_new_clipboard_content"
        /\ last.ret = Err("Sqlite")

\* C12: no two rows share a hash, and a callback whose snapshot's hash is
\* stored returns at the existence check: nothing is written, inserted,
\* evicted or emitted and the table is as it was (A captured, then B, then A
\* again leaves the one row of A untouched).
C12_ReappearingContent ==
    /\ [](\A r, q \in clipboard_history : r.hash = q.hash => r.id = q.id)
    /\ [][\A w \in Workers :
            (HandlerHashExists(w) /\ snapshot[w].hash \in Hashes(clipboard_history))
            => (/\ pc'[w] = "sleep"
                /\ UNCHANGED <<clipboard_history, sqlite_sequence, images, emitted,
                               now>>)]_vars

\* C12 witness: A and then B were captured in this session and the callback
\* for A's reappearance has returned.
C12_Witness ==
    /\ emitted = 2
    /\ \E a, b \in clipboard_history :
            /\ 1 <= a.created_at /\ a.created_at < b.created_at
            /\ last = Returned(a.hash, Err("exists"))
            /\ last_hash = a.hash

\* C19: while the database is not open, insert, list, get, delete, clear,
\* exists, count, search and eviction with max > 0 return NotInitialized and
\* leave the table, the id counter, the assets and the settings alone; the
\* capture callback then returns at the existence check, with nothing
\* written, inserted or emitted, and the worker goes to its sleep.
C19_NotInitialized ==
    [][~db_conn =>
        LET Refused == /\ last'.ret = Err("NotInitialized")
                       /\ UNCHANGED <<db_conn, clipboard_history, sqlite_sequence,
                                      images, storage_limit, emitted>>
        IN /\ \A text \in 1..MaxClip : StoreInsert(text, FALSE) => Refused
           /\ StoreGetAll(None) => Refused
           /\ StoreGetById(1) => Refused
           /\ StoreDelete(1) => Refused
           /\ StoreClear => Refused
           /\ StoreHashExists(1) => Refused
           /\ StoreCount => Refused
           /\ StoreSearch(0, None) => Refused
           /\ StoreCleanup(1) => Refused
           /\ \A w \in Workers :
                HandlerHashExists(w) => (Refused /\ pc'[w] = "sleep")]_vars

\* C19 witness: a capture was abandoned for the missing database and the
\* worker is in its next tick.
C19_Witness ==
    \E w \in Workers :
        /\ pc[w] = "probe" /\ ~db_conn
        /\ last.op = "handle_new_clipboard_content"
        /\ last.ret = Err("NotInitialized")

C21_IdsIncreaseNeverReused ==
    /\ [](\A r \in clipboard_history : r.id <= sqlite_sequence)
    /\ [][/\ sqlite_sequence' >= sqlite_sequence
          /\ \A q \in clipboard_history' :
                \/ q \in clipboard_history
                \/ /\ q.id > sqlite_sequence
                   /\ q.id \notin Ids(clipboard_history)
                   /\ \A r \in clipboard_history : q.id > r.id]_vars

\* C21 witness: the row of the largest id was deleted and the next insert
\* took a larger id, not the freed one.
C21_Witness ==
    /\ last.op = "insert" /\ last.n = 0 /\ last.ret.ok
    /\ last.ret.val \in Ids(clipboard_history)
    /\ (last.ret.val - 1) \notin Ids(clipboard_history)
    /\ last.ret.val >= 2

\* C22: on an open store delete_item(id) answers true exactly when a row of
\* that id is stored, removes that row and no other, and changes nothing else;
\* for an id that is not stored it answers false and the table is as before.
C22_DeleteItem ==
    [][\A id \in 1..(MaxContent + MaxInserts) :
        (StoreDelete(id) /\ db_conn) =>
            /\ last'.ret = Ok(IF id \in Ids(clipboard_history) THEN 1 ELSE 0)
            /\ clipboard_history' = {r \in clipboard_history : r.id # id}
            /\ id \notin Ids(clipboard_history) => clipboard_history' = clipboard_history
            /\ UNCHANGED <<sqlite_sequence, storage_limit, images>>]_vars

\* C22 witness: a stored row was deleted and other rows remain.
C22_Witness ==
    /\ last.op = "delete" /\ last.ret = Ok(1) /\ last.n = 1
    /\ last.arg \notin Ids(clipboard_history)
    /\ clipboard_history # {}

\* C23: on an open store clear_all_items leaves no row, pinned or not, so
\* that get_item_count is 0 after it, and the settings are as before.
C23_ClearAll ==
    [][(StoreClear /\ db_conn) =>
            /\ last'.ret.ok
            /\ clipboard_history' = {}
            /\ get_item_count(db_conn', clipboard_history') = Ok(0)
            /\ UNCHANGED <<storage_limit, theme, settings_table>>]_vars

\* C23 witness: a clear that removed pinned and unpinned rows.
C23_Witness ==
    /\ last.op = "clear" /\ last.ret.ok
    /\ last.arg >= 1 /\ last.n > last.arg
    /\ clipboard_history = {}

\* --------------------------------------------------------------- previews
\* texts of up to PreviewLength + MaxOver letters, with or without a blank
\* before and after
PreviewTexts ==
    {[k \in 1..(i + n + j) |-> IF k <= i \/ k > i + n THEN " " ELSE "a"]
        : i \in 0..1, j \in 0..1, n \in 0..(PreviewLength + MaxOver)}

\* a text is at hand; nothing else of the program is involved
InitPreview ==
    /\ db_conn = FALSE
    /\ clipboard_history = {}
    /\ sqlite_sequence = 0
    /\ now = 1
    /\ storage_limit = Limit100
    /\ theme = "light"
    /\ settings_table = [storage_limit |-> storage_limit, theme |-> theme]
    /\ db_lock = 0
    /\ calls = [t \in Threads |-> NoCall]
    /\ images = {}
    /\ InitMonitor
    /\ emitted = 0
    /\ last \in {Done("text", text, 0, Ok(0)) : text \in PreviewTexts}

\* ClipboardItem::new_text: preview = generate_preview(&text, 100)
NewText ==
    /\ last.op = "text"
    /\ last' = Done("new_text", last.arg, 0,
                    Ok(generate_preview(last.arg, PreviewLength)))
    /\ UNCHANGED <<store_vars, monitor_vars, emitted>>

\* ClipboardItem::new_rich_text: preview = generate_preview(&plain, 100)
NewRichText ==
    /\ last.op = "text"
    /\ last' = Done("new_rich_text", last.arg, 0,
                    Ok(generate_preview(last.arg, PreviewLength)))
    /\ UNCHANGED <<store_vars, monitor_vars, emitted>>

NextPreview == NewText \/ NewRichText

SpecPreview == InitPreview /\ [][NextPreview]_vars

\* C24: the preview new_text and new_rich_text derive has at most
\* PreviewLength characters, for every text.
C24_PreviewAtMostN ==
    last.op \in {"new_text", "new_rich_text"} => Len(last.ret.val) <= PreviewLength

\* ---------------------------------------- claims on the monitor, continued
\* C25: a snapshot the probe returned is either a text snapshot with
\* plain_text and neither rich_text nor image_data, or an image snapshot with
\* image_data and neither plain_text nor rich_text.
C25_OnePayloadField ==
    \A w \in Workers :
        snapshot[w] # NoSnapshot =>
            \/ /\ snapshot[w].content_type = "text"
               /\ snapshot[w].plain_text # 0
               /\ snapshot[w].rich_text = 0 /\ snapshot[w].image_data = 0
            \/ /\ snapshot[w].content_type = "image"
               /\ snapshot[w].image_data # 0
               /\ snapshot[w].plain_text = 0 /\ snapshot[w].rich_text = 0

\* C25 witness: the clipboard offered a direct image that did not encode and
\* a text, and the probe returned the text snapshot.
C25_Witness ==
    \E w \in Workers :
        /\ snapshot[w].content_type = "text"
        /\ clipboard.image # 0 /\ ~clipboard.png /\ clipboard.text = snapshot[w].plain_text

\* ------------------------------------------------- claims on the settings
\* the eviction of the configured limit `limit`: cleanup_old_items(limit),
\* which for a limit that is not positive does nothing and need not be called
EvictionOf(limit, call) == IF limit > 0 THEN call = Some(limit) ELSE call \in {None, Some(limit)}

\* C26 (after an insert): a successful insert of the callback is followed by
\* the callback's eviction step, which evicts with the limit SETTINGS holds at
\* that step.
C26_EvictionAfterInsert ==
    [][\A w \in Workers :
        /\ (pc[w] = "cb_insert" /\ pc'[w] # "cb_insert"
                /\ clipboard_history' # clipboard_history)
            => pc'[w] = "cb_cleanup"
        /\ (pc[w] = "cb_cleanup" /\ pc'[w] # "cb_cleanup")
            => /\ pc'[w] = "cb_emit"
               /\ storage_limit > 0
                    => last' = Done("cleanup", storage_limit, last'.n, last'.ret)
               /\ storage_limit <= 0 => clipboard_history' = clipboard_history]_vars

\* C26 (on a change of the limit): an update_settings that changes the
\* configured limit has run the eviction of the limit it configures.
C26_EvictionOnLimitChange ==
    [][(last'.op = "update_settings" /\ storage_limit' # storage_limit)
        => EvictionOf(storage_limit', last'.cleanup)]_vars

\* C26: the eviction of the configured limit runs after every successful
\* insert of the capture callback, with the limit read at that moment, and at
\* every update_settings that changes the configured limit.
C26_EvictionInvoked ==
    /\ C26_EvictionAfterInsert
    /\ C26_EvictionOnLimitChange

\* C27: a worker that is in the callback or in one of its sleeps does not
\* hold the mutex of last_hash; it holds it only between the lock and the
\* comparison.
C27_LockNotHeldAcrossCallback ==
    \A w \in Workers :
        /\ (InCallback(w) \/ pc[w] \in Sleeps) => last_hash_lock # w
        /\ last_hash_lock = w => pc[w] = "compare"

\* C27 witness: a worker is in the callback, having stored the new hash, and
\* the mutex is free.
C27_Witness ==
    \E w \in Workers :
        /\ pc[w] = "callback"
        /\ last_hash = snapshot[w].hash
        /\ last_hash_lock = 0

\* C28: a live worker comes to the loop condition only from a sleep, a sleep
\* is followed by the loop condition and by nothing else, and each path of
\* the loop body ends in a sleep: the paused one, the failed Clipboard::new(),
\* the probe without snapshot, the unchanged hash, and the callback's return.
C28_OneSleepPerIteration ==
    [][\A w \in Workers :
        /\ (Alive(w) /\ pc[w] # "loop" /\ pc'[w] = "loop") => pc[w] \in Sleeps
        /\ (pc[w] \in Sleeps /\ pc'[w] # pc[w]) => pc'[w] = "loop"
        /\ (pc[w] = "loop" /\ pc'[w] # "loop" /\ running /\ paused)
                => pc'[w] = "sleep_paused"
        /\ WorkerOpenFails(w) => pc'[w] = "sleep_error"
        /\ (WorkerProbe(w) /\ snapshot'[w] = NoSnapshot) => pc'[w] = "sleep"
        /\ (WorkerCompare(w) /\ snapshot[w].hash = last_hash) => pc'[w] = "sleep"
        /\ (pc[w] = "callback" /\ pc'[w] # "callback") => pc'[w] = "sleep"]_vars

\* C28 witness: a worker that has captured before sleeps after a failed
\* Clipboard::new().
C28_Witness ==
    \E w \in Workers :
        /\ pc[w] = "sleep_error"
        /\ running /\ ~paused
        /\ last_hash # 0

\* C29: there is no queue between the clipboard and the callback.  A change
\* of the clipboard moves no worker and reaches no snapshot; a worker gets a
\* snapshot only at its probe, and it is the snapshot of what the clipboard
\* holds at that step; the callback is entered with that snapshot, and a
\* worker that is in the callback does not probe.  So of two changes made
\* while a callback executes the next tick sees the later one, and the
\* earlier content is in no snapshot.
C29_NoQueue ==
    [][\A w \in Workers :
        /\ clipboard' # clipboard
            => UNCHANGED <<pc, snapshot, last_hash, clipboard_history, emitted>>
        /\ (snapshot'[w] # snapshot[w] /\ snapshot'[w] # NoSnapshot)
            => (pc[w] = "probe" /\ snapshot'[w] = read_clipboard(clipboard))
        /\ (pc[w] # "callback" /\ pc'[w] = "callback")
            => (pc[w] = "compare" /\ snapshot'[w] = snapshot[w])
        /\ InCallback(w)
            => (snapshot'[w] \in {snapshot[w], NoSnapshot} /\ pc'[w] # "probe")]_vars

\* C29 witness: text 1 was captured; while its callback executed the user
\* copied text 2 and then something later; the later content was captured
\* and text 2 was not.
C29_Witness ==
    /\ emitted = 2
    /\ compute_hash(1) \in Hashes(clipboard_history)
    /\ compute_hash(2) \notin Hashes(clipboard_history)
    /\ Cardinality(clipboard_history) = 2
    /\ last_hash \notin {compute_hash(1), compute_hash(2)}

\* ------------------------------------------------- database.rs, the mutex
\* Every storage function is `with_db!(conn => body)`: `let guard = DB.lock()`,
\* the body on the connection, the guard dropped when the function returns.
\* The capture callback calls them on the worker thread and the commands of
\* the frontend on other threads.
StorageCalls ==
    {[op |-> "insert_clipboard_item", arg |-> text] : text \in 1..MaxClip}
    \cup {[op |-> "cleanup_old_items", arg |-> max_count] : max_count \in {Unlimited, 1}}
    \cup {[op |-> "save_setting", arg |-> value] : value \in {Limit200}}
    \cup {[op |-> op, arg |-> 1] :
            op \in {"get_all_items", "get_item_by_id", "delete_item", "clear_all_items",
                    "hash_exists", "get_item_count", "search_items", "get_setting"}}

\* what the body of call c does on the connection and what it returns
Body(c) ==
    LET rows == clipboard_history
        same == [n |-> 0, ret |-> Ok(0), rows |-> rows,
                 seq |-> sqlite_sequence, table |-> settings_table]
    IN IF c.op = "insert_clipboard_item"
       THEN LET r == insert_clipboard_item(db_conn, rows, sqlite_sequence,
                                           new_text(c.arg, compute_hash(c.arg), now))
            IN [same EXCEPT !.rows = r.rows, !.seq = r.seq, !.n = r.n, !.ret = r.ret]
       ELSE IF c.op = "delete_item"
       THEN LET r == delete_item(db_conn, rows, c.arg)
            IN [same EXCEPT !.rows = r.rows, !.n = r.n, !.ret = r.ret]
       ELSE IF c.op = "clear_all_items"
       THEN LET r == clear_all_items(db_conn, rows)
            IN [same EXCEPT !.rows = r.rows, !.n = r.n, !.ret = r.ret]
       ELSE IF c.op = "cleanup_old_items"
       THEN LET r == cleanup_old_items(db_conn, rows, c.arg)
            IN [same EXCEPT !.rows = r.rows, !.n = r.n, !.ret = r.ret]
       ELSE IF c.op = "save_setting"
       THEN LET r == save_setting(db_conn, settings_table, "storage_limit", c.arg)
            IN [same EXCEPT !.table = r.table, !.ret = r.ret]
       ELSE IF c.op = "get_setting"
       THEN [same EXCEPT !.ret = get_setting(db_conn, settings_table, "storage_limit")]
       ELSE IF c.op = "get_all_items"
       THEN [same EXCEPT !.ret = get_all_items(db_conn, rows, None)]
       ELSE IF c.op = "get_item_by_id"
       THEN [same EXCEPT !.ret = get_item_by_id(db_conn, rows, c.arg)]
       ELSE IF c.op = "hash_exists"
       THEN [same EXCEPT !.ret = hash_exists(db_conn, rows, c.arg)]
       ELSE IF c.op = "get_item_count"
       THEN [same EXCEPT !.ret = get_item_count(db_conn, rows)]
       ELSE [same EXCEPT !.ret = search_items(db_conn, rows, 0, None)]

\* thread t calls a storage function; cleanup_old_items returns Ok(0) for
\* max_count <= 0 before with_db
Enter(t, c) ==
    /\ calls[t] = NoCall
    /\ IF c.op = "cleanup_old_items" /\ c.arg <= 0
       THEN /\ last' = Done(c.op, c.arg, 0, Ok(0))
            /\ UNCHANGED calls
       ELSE /\ calls' = [calls EXCEPT ![t] = [op |-> c.op, arg |-> c.arg, at |-> "waiting"]]
            /\ UNCHANGED last
    /\ UNCHANGED <<db_conn, clipboard_history, sqlite_sequence, now, storage_limit,
                   theme, settings_table, images, db_lock, monitor_vars, emitted>>

\* with_db without DB.lock(): the body runs on the connection at once
AcquireWithoutMutex(t) ==
    /\ calls[t].at = "waiting"
    /\ calls[t].op = "insert_clipboard_item" => now <= MaxInserts
    /\ db_lock' = t
    /\ calls' = [calls EXCEPT ![t].at = "inside"]
    /\ UNCHANGED <<db_conn, clipboard_history, sqlite_sequence, now, storage_limit,
                   theme, settings_table, images, monitor_vars, emitted, last>>

\* `let guard = DB.lock()`: returns when no other thread holds the mutex
Acquire(t) ==
    /\ calls[t].at = "waiting"
    /\ calls[t].op = "insert_clipboard_item" => now <= MaxInserts
    /\ db_lock = 0
    /\ db_lock' = t
    /\ calls' = [calls EXCEPT ![t].at = "inside"]
    /\ UNCHANGED <<db_conn, clipboard_history, sqlite_sequence, now, storage_limit,
                   theme, settings_table, images, monitor_vars, emitted, last>>

\* the body has run on the connection; the function returns and drops the guard
Leave(t) ==
    /\ calls[t].at = "inside"
    /\ LET r == Body(calls[t])
       IN /\ clipboard_history' = r.rows
          /\ sqlite_sequence' = r.seq
          /\ settings_table' = r.table
          /\ last' = Done(calls[t].op, calls[t].arg, r.n, r.ret)
    /\ now' = IF calls[t].op = "insert_clipboard_item" THEN now + 1 ELSE now
    /\ db_lock' = IF db_lock = t THEN 0 ELSE db_lock
    /\ calls' = [calls EXCEPT ![t] = NoCall]
    /\ UNCHANGED <<db_conn, storage_limit, theme, images, monitor_vars, emitted>>

InitMutex == InitApp(Files(1..MaxClip, MaxPersisted), {Limit100})

NextMutex ==
    \/ \E t \in Threads, c \in StorageCalls : Enter(t, c)
    \/ \E t \in Threads : Acquire(t)
    \/ \E t \in Threads : Leave(t)

SpecMutex == InitMutex /\ [][NextMutex]_vars

\* C30: at most one thread is in the body of a storage function, it is the
\* thread that holds DB, and the tables change only in a step of that thread:
\* the calls of the capture callback and of the commands run one after the
\* other.
C30_StoreCallsSerialized ==
    /\ [](\A t, u \in Threads :
            /\ (calls[t].at = "inside" /\ calls[u].at = "inside") => t = u
            /\ calls[t].at = "inside" => db_lock = t)
    /\ [][<<clipboard_history, sqlite_sequence, settings_table>>'
                # <<clipboard_history, sqlite_sequence, settings_table>>
            => (/\ db_lock # 0
                /\ calls[db_lock].at = "inside"
                /\ calls'[db_lock] = NoCall
                /\ db_lock' = 0)]_vars

\* C30 witness: a command is deleting a row while the insert of the capture
\* callback waits for the mutex.
C30_Witness ==
    \E t, u \in Threads :
        /\ calls[t].at = "inside" /\ calls[t].op = "delete_item"
        /\ calls[u].at = "waiting" /\ calls[u].op = "insert_clipboard_item"

\* ------------------------------------------- claims on the event and flags
\* C31: "clipboard-updated" is emitted only by a callback whose insert
\* succeeded, after the eviction step that follows the insert, and never by a
\* callback that found the hash stored or gave the capture up; a failed
\* eviction and a failed emit change no row, so the inserted record stays, and
\* the worker goes on to its sleep with the monitor still running.
C31_EmitAfterInsert ==
    [][\A w \in Workers :
        /\ emitted' # emitted
            => /\ emitted' = emitted + 1
               /\ \E v \in Workers : pc[v] = "cb_emit" /\ pc'[v] = "sleep"
        /\ (pc'[w] = "cb_emit" /\ pc[w] # "cb_emit") => pc[w] = "cb_cleanup"
        /\ (pc'[w] = "cb_cleanup" /\ pc[w] # "cb_cleanup")
            => /\ pc[w] = "cb_insert"
               /\ snapshot[w].hash \notin Hashes(clipboard_history)
               /\ \E r \in clipboard_history' :
                    r.hash = snapshot[w].hash /\ r.id = sqlite_sequence'
        /\ (pc[w] = "cb_cleanup" /\ pc'[w] # "cb_cleanup")
            => /\ pc'[w] = "cb_emit"
               /\ snapshot[w].hash \in Hashes(clipboard_history')
               /\ (last'.op = "cleanup" /\ ~last'.ret.ok)
                    => clipboard_history' = clipboard_history
        /\ (pc[w] = "cb_emit" /\ pc'[w] # "cb_emit")
            => /\ pc'[w] = "sleep"
               /\ running' = running
               /\ clipboard_history' = clipboard_history
               /\ snapshot[w].hash \in Hashes(clipboard_history')
        /\ (last' # last /\ last'.op = "handle_new_clipboard_content"
                /\ ~last'.ret.ok)
            => emitted' = emitted]_vars

\* the insert succeeded, the event was refused, the record is stored and the
\* worker is at its next probe
C31_Witness ==
    /\ last = Returned(last_hash, Err("Emit"))
    /\ last_hash \in Hashes(clipboard_history)
    /\ emitted = 0
    /\ running
    /\ pc[1] = "probe"

\* C32: pause() and resume() leave the running flag as it is, start() and
\* stop() leave the paused flag as it is, so a pause() made while the monitor
\* is stopped is in effect after the start() that follows; the started worker
\* then goes from its loop condition to the paused sleep and probes nothing
\* while the flag is set.
C32_PausedIndependentOfRunning ==
    [][/\ (Pause \/ Resume) => running' = running
       /\ (StartCheck \/ StartSpawn \/ Stop) => paused' = paused
       /\ (Pause /\ ~running) => paused'
       /\ \A w \in Workers :
            /\ (paused /\ running /\ pc[w] = "loop" /\ pc'[w] # "loop")
                => pc'[w] = "sleep_paused"
            /\ (pc'[w] = "probe" /\ pc[w] # "probe") => ~paused]_vars

\* pause() came before the start() that spawned the first worker, which is
\* now in the paused sleep of its first tick, nothing probed
C32_Witness ==
    /\ paused /\ running
    /\ last = Done("start", 0, 0, Ok(0))
    /\ pc[1] = "sleep_paused"
    /\ pc[2] = "none"
    /\ last_probe = 0 /\ last_hash = 0

\* C33: with the one worker the application starts, whatever commands of the
\* frontend run between the callback's hash_exists and its insert, the hash
\* the callback inserts is in no row at the moment of the insert: the insert
\* removes no row, and when it succeeds it adds exactly one.
C33_CallbackNeverReplaces ==
    [][\A w \in Workers :
        /\ (pc'[w] = "cb_insert" /\ pc[w] # "cb_insert")
            => snapshot[w].hash \notin Hashes(clipboard_history)
        /\ (pc[w] = "cb_insert" /\ Commands)
            => snapshot[w].hash \notin Hashes(clipboard_history')
        /\ (pc[w] = "cb_insert" /\ pc'[w] # "cb_insert")
            => /\ snapshot[w].hash \notin Hashes(clipboard_history)
               /\ clipboard_history \subseteq clipboard_history'
               /\ pc'[w] = "cb_cleanup"
                    => Cardinality(clipboard_history')
                        = Cardinality(clipboard_history) + 1]_vars

\* the callback inserted its record after a delete_item of the frontend
\* removed a row, the last operation before the insert
C33_Witness ==
    /\ pc[1] = "cb_cleanup"
    /\ last.op = "delete" /\ last.ret = Ok(1)
    /\ snapshot[1].hash \in Hashes(clipboard_history)

\* C34: a text that stays on the clipboard from some moment on, with the
\* monitor running and not paused, is eventually in a row of the store, also
\* when the callback gave its capture up after a failure that does not repeat.
C34_RemainingContentStored ==
    \A text \in 1..MaxClip :
        <>[](clipboard = Clip(0, FALSE, 0, 0, text))
            => <>(compute_hash(text) \in Hashes(clipboard_history))

\* C35: last_hash changes only in the step of a tick that goes on to the
\* callback, where it becomes the hash of that tick's snapshot, a hash other
\* than the one remembered; start(), stop(), pause() and resume() leave it as
\* it is, so a worker started after a stop() does not call the callback for
\* the content whose hash is remembered.
C35_LastHashFrame ==
    [][/\ last_hash' # last_hash
            => \E w \in Workers :
                /\ pc[w] = "compare" /\ pc'[w] = "callback"
                /\ last_hash' = snapshot[w].hash
       /\ \A w \in Workers :
            (pc'[w] = "callback" /\ pc[w] # "callback")
                => /\ snapshot[w].hash # last_hash
                   /\ last_hash' = snapshot[w].hash
       /\ (StartCheck \/ StartSpawn \/ Stop \/ Pause \/ Resume)
            => last_hash' = last_hash]_vars

\* after a stop() that both workers obeyed and the start() that followed, the
\* new worker has probed the content whose hash is remembered, still on the
\* clipboard, and gone to its sleep without the callback
C35_Witness ==
    /\ running
    /\ last = Done("start", 0, 0, Ok(0))
    /\ pc[2] = "exited"
    /\ pc[1] = "sleep"
    /\ last_hash # 0
    /\ clipboard = Clip(0, FALSE, 0, 0, last_hash)
    /\ last_probe = last_hash
    /\ repeat[1]

\* C36: an update_settings that receives a storage limit and succeeds runs
\* the eviction of the limit it configures, StorageLimit::from_i32 of the
\* value received; when that limit is Unlimited it runs no eviction with a
\* positive limit and removes no row.
C36_EvictionUsesConfiguredLimit ==
    [][\A limit_upd \in LimitUpdates \ {None} :
        UpdateSettings(None, limit_upd, TRUE, "all")
            => /\ EvictionOf(storage_limit', last'.cleanup)
               /\ storage_limit' = Unlimited
                    => /\ last'.cleanup \in {None, Some(Unlimited)}
                       /\ clipboard_history' = clipboard_history]_vars

\* C37: an update_settings that returns an error has removed no row and has
\* left SETTINGS and the persisted settings as they were before the call.
C37_ErrorChangesNothing ==
    [][\A theme_upd \in ThemeUpdates, limit_upd \in LimitUpdates,
          plugins_ok \in BOOLEAN, saved \in SaveOutcomes :
        (UpdateSettings(theme_upd, limit_upd, plugins_ok, saved) /\ ~last'.ret.ok)
            => UNCHANGED <<clipboard_history, theme, storage_limit,
                           settings_table>>]_vars

\* C38: after every call of config::update_settings, whether it returned Ok
\* or Err, the settings in SETTINGS are the persisted ones.
C38_MemoryEqualsPersisted ==
    (last.op = "update_settings" /\ last.ret # Err("Plugin"))
        => settings_table = [storage_limit |-> storage_limit, theme |-> theme]

\* C39: every image row names a file of the images directory that holds the
\* whole PNG, and every file the callback wrote in full is named by a row,
\* or is the file of the capture that is on its way to the insert.
C39_AssetsMatchRecords ==
    /\ \A r \in clipboard_history :
            r.content_type = "image"
                => \E f \in images : f.path = r.image_path /\ f.data # 0
    /\ \A f \in images :
            f.data # 0
                => \/ \E r \in clipboard_history :
                        r.content_type = "image" /\ r.image_path = f.path
                   \/ \E w \in Workers :
                        /\ pc[w] = "cb_insert"
                        /\ snapshot[w].content_type = "image"
                        /\ f.path = Cardinality(images)

====
